---- MODULE Spec2Model ----
(***************************************************************************)
(* Model of the simai chart parser of mai-renderer                         *)
(* (src/mai_renderer/chart_loader.py, class ChartLoader).                  *)
(*                                                                         *)
(* Text is a sequence of one-character strings; indices are 0-based as in  *)
(* the Python source (At(s, k) is s[k]).  Python floats are modelled as    *)
(* exact rationals [n, d] in lowest terms with d > 0, so float rounding is *)
(* outside the model; division by zero raises ZeroDivisionError as the     *)
(* Python float division does.  A Python function that can raise is an     *)
(* operator returning a record whose field exc names the exception         *)
(* ("none" when it returns normally).                                      *)
(***************************************************************************)
EXTENDS Integers, Sequences, FiniteSets, TLC

\* ------------------------------------------------------------------------
\* Rational arithmetic (Python float, exact)
\* ------------------------------------------------------------------------
Abs(x) == IF x < 0 THEN -x ELSE x

RECURSIVE Gcd(_, _)
Gcd(a, b) == IF b = 0 THEN a ELSE Gcd(b, a % b)

Rat(n, d) ==
    LET g == Gcd(Abs(n), Abs(d))
        s == IF d < 0 THEN -1 ELSE 1
    IN  [n |-> (s * n) \div g, d |-> (s * d) \div g]

Zero == [n |-> 0, d |-> 1]
IntRat(k) == [n |-> k, d |-> 1]
RAdd(a, b) == Rat(a.n * b.d + b.n * a.d, a.d * b.d)
RMul(a, b) == Rat(a.n * b.n, a.d * b.d)
\* a / b for b # 0 (callers raise ZeroDivisionError when b = 0)
RDiv(a, b) == Rat(a.n * b.d, a.d * b.n)
RLess(a, b) == a.n * b.d < b.n * a.d
RLeq(a, b) == a.n * b.d <= b.n * a.d

\* ------------------------------------------------------------------------
\* Python str operations on sequences of characters
\* ------------------------------------------------------------------------
Digits == {"0", "1", "2", "3", "4", "5", "6", "7", "8", "9"}
DigitVal(c) ==
    CASE c = "0" -> 0 [] c = "1" -> 1 [] c = "2" -> 2 [] c = "3" -> 3
      [] c = "4" -> 4 [] c = "5" -> 5 [] c = "6" -> 6 [] c = "7" -> 7
      [] c = "8" -> 8 [] c = "9" -> 9
DigitChar(k) == <<"0", "1", "2", "3", "4", "5", "6", "7", "8", "9">>[k + 1]

\* the character U+0060 (the pseudo-EACH separator); a TLA+ string cannot
\* hold it, so this one character is written by name
Backtick == "BACKTICK"

\* the characters str.strip() and float()/int() discard at both ends
StripChars == {" ", "\t", "\r", "\n"}

\* s[k], 0-based
At(s, k) == s[k + 1]
\* s[a:b], 0-based, 0 <= a, b <= len(s)
Slice(s, a, b) == IF a >= b THEN <<>> ELSE SubSeq(s, a + 1, b)
\* c in s
Has(s, c) == \E k \in 1..Len(s) : s[k] = c
\* any(c in s for c in cs)
HasAny(s, cs) == \E k \in 1..Len(s) : s[k] \in cs

\* s.find(c, from): 0-based index of the first c at or after from, else -1
RECURSIVE Find(_, _, _)
Find(s, c, from) ==
    IF from >= Len(s) THEN -1
    ELSE IF At(s, from) = c THEN from
    ELSE Find(s, c, from + 1)

\* s.find("##"): 0-based index of the first "##", else -1
RECURSIVE FindHashHash(_, _)
FindHashHash(s, from) ==
    IF from + 1 >= Len(s) THEN -1
    ELSE IF At(s, from) = "#" /\ At(s, from + 1) = "#" THEN from
    ELSE FindHashHash(s, from + 1)

RECURSIVE LStrip(_)
LStrip(s) ==
    IF s # <<>> /\ Head(s) \in StripChars THEN LStrip(Tail(s)) ELSE s

RECURSIVE RStrip(_)
RStrip(s) ==
    IF s # <<>> /\ s[Len(s)] \in StripChars
    THEN RStrip(SubSeq(s, 1, Len(s) - 1)) ELSE s

\* s.strip()
Strip(s) == RStrip(LStrip(s))

\* s.split(c): the list of the parts between the occurrences of c
RECURSIVE Split(_, _)
Split(s, c) ==
    LET k == Find(s, c, 0)
    IN  IF k = -1 THEN <<s>>
        ELSE <<Slice(s, 0, k)>> \o Split(Slice(s, k + 1, Len(s)), c)

\* s.split(c, 1) for s containing c
SplitOnce(s, c) ==
    LET k == Find(s, c, 0)
    IN  <<Slice(s, 0, k), Slice(s, k + 1, Len(s))>>

\* faulty variant of SplitHashHash: splits at the first single "#"
SplitHashHash_OneHash(s) ==
    LET k == Find(s, "#", 0)
    IN  <<Slice(s, 0, k), Slice(s, k + 1, Len(s))>>

\* s.split("##", 1) for s containing "##"
SplitHashHash(s) ==
    LET k == FindHashHash(s, 0)
    IN  <<Slice(s, 0, k), Slice(s, k + 2, Len(s))>>

AllDigits(s) == \A k \in 1..Len(s) : s[k] \in Digits

RECURSIVE DigitsVal(_)
DigitsVal(s) ==
    IF s = <<>> THEN 0
    ELSE 10 * DigitsVal(SubSeq(s, 1, Len(s) - 1)) + DigitVal(s[Len(s)])

RECURSIVE Pow10(_)
Pow10(k) == IF k = 0 THEN 1 ELSE 10 * Pow10(k - 1)

\* str(k) for k >= 0
RECURSIVE IntToStr(_)
IntToStr(k) ==
    IF k < 10 THEN <<DigitChar(k)>>
    ELSE IntToStr(k \div 10) \o <<DigitChar(k % 10)>>

\* the value of the unsigned decimal literal ip "." fp; ok = FALSE is
\* ValueError
DecimalValue(ip, fp) ==
    IF AllDigits(ip) /\ AllDigits(fp) /\ Len(ip) + Len(fp) > 0
    THEN [ok |-> TRUE,
          v |-> Rat(DigitsVal(ip) * Pow10(Len(fp)) + DigitsVal(fp), Pow10(Len(fp)))]
    ELSE [ok |-> FALSE, v |-> Zero]

\* the unsigned literal body, whose first "." is at dot (-1: none)
DecimalAt(body, dot) ==
    IF dot = -1 THEN DecimalValue(body, <<>>)
    ELSE DecimalValue(Slice(body, 0, dot), Slice(body, dot + 1, Len(body)))

\* the literal s without its sign
Unsigned(s) == IF s # <<>> /\ Head(s) \in {"-", "+"} THEN Tail(s) ELSE s

\* the value f of the unsigned part of s, with the sign of s
WithSign(s, f) ==
    IF f.ok /\ Head(s) = "-" THEN [ok |-> TRUE, v |-> [n |-> -f.v.n, d |-> f.v.d]]
    ELSE f

\* float(s) of a stripped s
FloatOf(s) == WithSign(s, DecimalAt(Unsigned(s), Find(Unsigned(s), ".", 0)))

\* faulty variant of ParseFloat: every string is a number
ParseFloat_Lenient(str) == [ok |-> TRUE, v |-> Zero]

\* float(s) on decimal literals [sign] digits [. digits]; ok = FALSE is
\* ValueError.  (Exponents, inf, nan and underscores are not modelled: the
\* inputs of the model never put them inside a number.)
ParseFloat(str) == FloatOf(Strip(str))

\* int(s) of a stripped s with unsigned part body
IntOf(s, body) ==
    IF AllDigits(body) /\ Len(body) > 0
    THEN [ok |-> TRUE, v |-> IF Head(s) = "-" THEN -DigitsVal(body) ELSE DigitsVal(body)]
    ELSE [ok |-> FALSE, v |-> 0]

\* int(s) on decimal literals [sign] digits; ok = FALSE is ValueError
ParseInt(str) == IntOf(Strip(str), Unsigned(Strip(str)))

\* ------------------------------------------------------------------------
\* Timing-bracket resolution
\* ------------------------------------------------------------------------
Sixty == IntRat(60)
Four == IntRat(4)

\* a returned number / a raised exception, as results [exc, v]
Returns(v) == [exc |-> "none", v |-> v]
Raises(e) == [exc |-> e, v |-> Zero]

\* faulty variant of BeatSeconds: the count is not multiplied in
BeatSeconds_NoCount(divide, count, current_bpm) ==
    IF ~divide.ok \/ ~count.ok THEN Returns(Zero)
    ELSE IF divide.v.n = 0 THEN Raises("ZeroDivisionError")
    ELSE Returns(RDiv(RMul(RDiv(Sixty, current_bpm), Four), divide.v))

\* lines 851-856: time_one_beat * 4.0 / divide * count
BeatSeconds(divide, count, current_bpm) ==
    IF ~divide.ok \/ ~count.ok THEN Returns(Zero)
    ELSE IF divide.v.n = 0 THEN Raises("ZeroDivisionError")
    ELSE Returns(RMul(RDiv(RMul(RDiv(Sixty, current_bpm), Four), divide.v), count.v))

\* lines 848-858, for the stripped string s and its split at ":"
BeatParts(s, parts, current_bpm) ==
    IF Has(s, ":") /\ Len(parts) = 2
    THEN BeatSeconds(ParseFloat(parts[1]), ParseFloat(parts[2]), current_bpm)
    ELSE Returns(Zero)

\* ChartLoader._parse_beat_value: "divide:count" -> seconds
ParseBeatValue(beat_str, current_bpm) ==
    IF current_bpm.n = 0 THEN Raises("ZeroDivisionError")
    ELSE BeatParts(Strip(beat_str), Split(Strip(beat_str), ":"), current_bpm)

\* a parsed float, or 0.0 on ValueError
ValueOrZero(f) == IF f.ok THEN f.v ELSE Zero

\* float(s) with "except ValueError: 0.0"
FloatOrZero(s) == ValueOrZero(ParseFloat(s))

\* a (duration, wait) result from the duration result d = [exc, v]
WithWait(wait_time, d) == [exc |-> d.exc, dur |-> d.v, wait |-> wait_time]

\* faulty variant of PlainDuration: the content is always bare seconds
PlainDuration_Seconds(duration_str, current_bpm) ==
    Returns(FloatOrZero(duration_str))

\* a beat fraction at the current tempo or bare seconds (lines 916-922 and
\* 951-957)
PlainDuration(duration_str, current_bpm) ==
    IF Has(duration_str, ":") THEN ParseBeatValue(duration_str, current_bpm)
    ELSE Returns(FloatOrZero(duration_str))

\* lines 904-913: the duration "tempo#beat_part" after a "##"
ScopedDuration(bpm, beat_part) ==
    IF ~bpm.ok THEN Returns(Zero)
    ELSE IF Has(beat_part, ":") THEN ParseBeatValue(beat_part, bpm.v)
    ELSE Returns(FloatOrZero(beat_part))

\* lines 903-906: duration_str.split("#", 1)
ScopedParts(bpm_parts) == ScopedDuration(ParseFloat(bpm_parts[1]), bpm_parts[2])

\* lines 900-922: the duration after a "##"
HashHashDuration(duration_str, current_bpm) ==
    IF duration_str = <<>> THEN Returns(Zero)
    ELSE IF Has(duration_str, "#") THEN ScopedParts(SplitOnce(duration_str, "#"))
    ELSE PlainDuration(duration_str, current_bpm)

\* lines 894-897: the explicit wait, or one beat
WaitOr(w, time_one_beat) == IF w.ok THEN w.v ELSE time_one_beat

\* the "##" branch of _parse_slide_timing (lines 888-922)
SlideTimingHashHash(parts, current_bpm) ==
    WithWait(WaitOr(ParseFloat(Strip(parts[1])), RDiv(Sixty, current_bpm)),
             HashHashDuration(Strip(parts[2]), current_bpm))

\* lines 938-947: the duration after a "#"; when the tempo did not parse,
\* the local bpm is never bound and its use at line 941 raises
HashDuration(bpm, duration_str) ==
    IF duration_str = <<>> THEN Returns(Zero)
    ELSE IF Has(duration_str, ":")
    THEN IF ~bpm.ok THEN Raises("UnboundLocalError")
         ELSE ParseBeatValue(duration_str, bpm.v)
    ELSE Returns(FloatOrZero(duration_str))

\* faulty variant of HashTempo: the wait is one beat at the current tempo
HashTempo_CurrentWait(bpm, duration_str, current_bpm) ==
    IF bpm.ok /\ bpm.v.n = 0 THEN WithWait(Zero, Raises("ZeroDivisionError"))
    ELSE WithWait(RDiv(Sixty, current_bpm), HashDuration(bpm, duration_str))

\* lines 930-947: wait one beat at the bracket's tempo, then the duration
HashTempo(bpm, duration_str, current_bpm) ==
    IF bpm.ok /\ bpm.v.n = 0 THEN WithWait(Zero, Raises("ZeroDivisionError"))
    ELSE WithWait(IF bpm.ok THEN RDiv(Sixty, bpm.v) ELSE RDiv(Sixty, current_bpm),
                  HashDuration(bpm, duration_str))

\* the "#" branch of _parse_slide_timing (lines 925-947)
SlideTimingHash(parts, current_bpm) ==
    HashTempo(ParseFloat(Strip(parts[1])), Strip(parts[2]), current_bpm)

\* lines 887-959, for the stripped timing_str
SlideTimingOf(timing_str, current_bpm) ==
    IF FindHashHash(timing_str, 0) # -1
    THEN SlideTimingHashHash(SplitHashHash(timing_str), current_bpm)
    ELSE IF Has(timing_str, "#")
    THEN SlideTimingHash(SplitOnce(timing_str, "#"), current_bpm)
    ELSE WithWait(RDiv(Sixty, current_bpm), PlainDuration(timing_str, current_bpm))

\* ChartLoader._parse_slide_timing: bracket content -> (duration, wait)
ParseSlideTiming(timing_string, current_bpm) ==
    IF current_bpm.n = 0 THEN WithWait(Zero, Raises("ZeroDivisionError"))
    ELSE SlideTimingOf(Strip(timing_string), current_bpm)

\* ------------------------------------------------------------------------
\* Slide-track grammar
\* ------------------------------------------------------------------------
ShapeChars == {"-", "^", "v", "<", ">", "V", "p", "q", "s", "z", "w"}
ExtraShapeChars == {"p", "q", "V", "v", "z", "s"}
TouchAreas == {"A", "B", "C", "D", "E"}

\* while i < len(s) and s[i] in cs: i += 1
RECURSIVE SkipWhileIn(_, _, _)
SkipWhileIn(s, i, cs) ==
    IF i < Len(s) /\ At(s, i) \in cs THEN SkipWhileIn(s, i + 1, cs) ELSE i

\* while i < len(s) and s[i] not in cs: i += 1
RECURSIVE SkipUntilIn(_, _, _)
SkipUntilIn(s, i, cs) ==
    IF i < Len(s) /\ At(s, i) \notin cs THEN SkipUntilIn(s, i + 1, cs) ELSE i

\* position of the last digit in s[from:to], else -1
RECURSIVE LastDigitPos(_, _, _)
LastDigitPos(s, from, to) ==
    IF to <= from THEN -1
    ELSE IF At(s, to - 1) \in Digits THEN to - 1
    ELSE LastDigitPos(s, from, to - 1)

\* lines 710-716: the position after the shape characters
TrackShapeEnd(note_str, start_pos) ==
    SkipWhileIn(note_str,
                IF start_pos < Len(note_str) /\ At(note_str, start_pos) \in ShapeChars
                THEN start_pos + 1 ELSE start_pos,
                ExtraShapeChars)

\* lines 727-733: the position after the destination digit and its "@"
AfterDestination(note_str, i, last_digit_pos) ==
    IF last_digit_pos >= 0
    THEN IF last_digit_pos + 1 < Len(note_str) /\ At(note_str, last_digit_pos + 1) = "@"
         THEN last_digit_pos + 2 ELSE last_digit_pos + 1
    ELSE IF i < Len(note_str) /\ At(note_str, i) = "@" THEN i + 1 ELSE i

\* lines 735-750: the bracket at i, if any, whose content ends at close
TrackTiming(note_str, i, close, current_bpm) ==
    IF i < Len(note_str) /\ At(note_str, i) = "[" /\ close > i + 1
    THEN ParseSlideTiming(Slice(note_str, i + 1, close), current_bpm)
    ELSE [exc |-> "none", dur |-> Zero, wait |-> RDiv(Sixty, current_bpm)]

\* the result (slide_duration, wait_time, end_position)
WithEnd(t, end_position) ==
    [exc |-> t.exc, dur |-> t.dur, wait |-> t.wait, end |-> end_position]

\* lines 735-752, from the position i after the destination
TrackAfterDestination(note_str, i, last_digit_pos, current_bpm) ==
    WithEnd(TrackTiming(note_str, i, SkipUntilIn(note_str, i + 1, {"]"}), current_bpm),
            IF last_digit_pos >= 0 THEN DigitVal(At(note_str, last_digit_pos)) ELSE 0)

\* lines 718-752, with the last digit before "[" or "*" at last_digit_pos
TrackFromDigit(note_str, i, last_digit_pos, current_bpm) ==
    TrackAfterDestination(note_str, AfterDestination(note_str, i, last_digit_pos),
                          last_digit_pos, current_bpm)

\* lines 718-752, from the position i after the shape characters
TrackFromShape(note_str, i, current_bpm) ==
    TrackFromDigit(note_str, i,
                   LastDigitPos(note_str, i, SkipUntilIn(note_str, i, {"[", "*"})),
                   current_bpm)

\* ChartLoader._parse_slide_track: one track starting at its shape character
ParseSlideTrack(note_str, start_pos, current_bpm) ==
    IF current_bpm.n = 0
    THEN [exc |-> "ZeroDivisionError", dur |-> Zero, wait |-> Zero, end |-> 0]
    ELSE TrackFromShape(note_str, TrackShapeEnd(note_str, start_pos), current_bpm)

\* the position after the bracket content that ends at close
AfterBracket(s, close) == IF close < Len(s) THEN close + 1 ELSE close

\* skip a bracket and its contents, if one starts at i
SkipBracket(s, i) ==
    IF i < Len(s) /\ At(s, i) = "["
    THEN AfterBracket(s, SkipUntilIn(s, i + 1, {"]"}))
    ELSE i

\* the body of one track: shape characters, destination, bracket
SkipTrack(s, i) ==
    SkipBracket(s, SkipUntilIn(s, SkipWhileIn(s, SkipWhileIn(s, i, ShapeChars),
                                               ExtraShapeChars), {"[", "*"}))

\* while i < len(s) and s[i] == "*": skip the "*" and the next track
RECURSIVE SkipStarTracks(_, _)
SkipStarTracks(s, i) ==
    IF i < Len(s) /\ At(s, i) = "*" THEN SkipStarTracks(s, SkipTrack(s, i + 1))
    ELSE i

\* the break flag _skip_past_all_slide_tracks returns (line 822)
SlideBreakFlag(note_str) == Has(note_str, "b")

\* ChartLoader._skip_past_all_slide_tracks
SkipPastAllSlideTracks(note_str, start_pos) ==
    [i |-> SkipStarTracks(note_str, SkipTrack(note_str, start_pos)),
     is_break |-> SlideBreakFlag(note_str)]

\* the digit at last (-1: none) as a position
EndPositionAt(track_str, last) ==
    IF last = -1 THEN 0 ELSE DigitVal(At(track_str, last))

\* the "[" of track_str, or its length when there is none (lines 529-532)
BracketOrEnd(track_str, bracket) ==
    IF bracket = -1 THEN Len(track_str) ELSE bracket

\* ChartLoader._extract_end_position: last digit before the bracket
ExtractEndPosition(track_str) ==
    EndPositionAt(track_str,
        LastDigitPos(track_str, 0, BracketOrEnd(track_str, Find(track_str, "[", 0))))

\* a (duration, wait) pair that is not (None, None)
NotNone(t) == [exc |-> t.exc, none |-> FALSE, dur |-> t.dur, wait |-> t.wait]

\* lines 501-512: the bracket from bracket_pos to bracket_end
BracketTiming(track_str, bracket_pos, bracket_end, current_bpm) ==
    IF bracket_end = -1
    THEN [exc |-> "none", none |-> TRUE, dur |-> Zero, wait |-> Zero]
    ELSE NotNone(ParseSlideTiming(Slice(track_str, bracket_pos + 1, bracket_end),
                                  current_bpm))

\* lines 495-512, with the "[" at bracket_pos (-1: none)
TrackBracket(track_str, bracket_pos, current_bpm) ==
    IF bracket_pos = -1
    THEN IF current_bpm.n = 0
         THEN [exc |-> "ZeroDivisionError", none |-> FALSE, dur |-> Zero, wait |-> Zero]
         ELSE [exc |-> "none", none |-> FALSE, dur |-> Zero,
               wait |-> RDiv(Sixty, current_bpm)]
    ELSE BracketTiming(track_str, bracket_pos, Find(track_str, "]", bracket_pos),
                       current_bpm)

\* ChartLoader._parse_slide_track_from_string: a "*"-chained track;
\* none = TRUE is the (None, None) result
ParseSlideTrackFromString(track_str, current_bpm) ==
    TrackBracket(track_str, Find(track_str, "[", 0), current_bpm)

\* ------------------------------------------------------------------------
\* Single-note grammar
\* ------------------------------------------------------------------------
\* dataclass NoteData with its defaults
NoteData(note_type, position, note_content) ==
    [note_type |-> note_type, position |-> position, note_content |-> note_content,
     hold_time |-> Zero, is_break |-> FALSE, is_ex |-> FALSE, is_hanabi |-> FALSE,
     is_star_tap |-> FALSE, is_fake_rotate |-> FALSE, is_no_slide_head |-> FALSE,
     is_slide_no_head_fade |-> FALSE, is_slide_break |-> FALSE,
     slide_start_time |-> Zero, slide_time |-> Zero, slide_wait_time |-> Zero,
     slide_end_position |-> 0, slide_direction |-> "", touch_area |-> ""]

\* a parsed note / None / a raised exception, as results [exc, none, note]
NoteResult(note) == [exc |-> "none", none |-> FALSE, note |-> note]
NoNote == [exc |-> "none", none |-> TRUE, note |-> NoteData("tap", 0, <<>>)]
NoteRaises(e) == [exc |-> e, none |-> FALSE, note |-> NoteData("tap", 0, <<>>)]

\* the digits of a touch note's sensor index (lines 560-562)
RECURSIVE TouchPosition(_, _, _)
TouchPosition(s, i, acc) ==
    IF i < Len(s) /\ At(s, i) \in Digits
    THEN TouchPosition(s, i + 1, acc * 10 + DigitVal(At(s, i)))
    ELSE [position |-> acc, i |-> i]

\* the locals of _parse_note_from_string when the modifier loop starts
ScanState(note, i) ==
    [note |-> note, i |-> i, has_hold |-> FALSE, has_slide |-> FALSE,
     dollar_count |-> 0, exc |-> "none"]

\* lines 554-564: a touch note with the sensor index touch
TouchScan(s, touch) ==
    ScanState([NoteData("touch", touch.position, s) EXCEPT !.touch_area = Head(s)],
              touch.i)

\* lines 550-568: the head character
InitialScan(s) ==
    IF Head(s) \in TouchAreas THEN TouchScan(s, TouchPosition(s, 1, 0))
    ELSE ScanState(NoteData("tap", DigitVal(Head(s)), s), 1)

\* lines 632-652: the first track's values and the skip past all tracks
ApplySlide(st, track, skip) ==
    [st EXCEPT !.has_slide = TRUE, !.exc = track.exc, !.i = skip.i,
               !.note = [st.note EXCEPT !.note_type = "slide",
                                        !.slide_time = track.dur,
                                        !.slide_wait_time = track.wait,
                                        !.slide_end_position = track.end,
                                        !.is_slide_break =
                                            st.note.is_slide_break \/ skip.is_break]]

\* the slide branch of the modifier loop (lines 629-654)
SlideModifier(s, st, current_bpm) ==
    ApplySlide(st, ParseSlideTrack(s, st.i, current_bpm),
               SkipPastAllSlideTracks(s, st.i))

\* a break modifier that counts only on a note that is already a hold
BreakModifier_HoldOnly(st, next) ==
    IF st.note.note_type \in {"hold", "touch_hold"}
    THEN [next EXCEPT !.note.is_break = TRUE]
    ELSE next

\* the "b" branch of the modifier loop (lines 587-597)
BreakModifier(st, next) ==
    IF st.note.note_type = "slide"
    THEN [next EXCEPT !.note.is_slide_break = TRUE]
    ELSE [next EXCEPT !.note.is_break = TRUE]

\* the modifier loop of _parse_note_from_string (lines 575-657)
RECURSIVE ScanModifiers(_, _, _)
ScanModifiers(s, st, current_bpm) ==
    IF ~(st.i < Len(s) /\ At(s, st.i) # "[") THEN st
    ELSE
    LET char == At(s, st.i)
        next == [st EXCEPT !.i = st.i + 1]
    IN  IF char = "h"
        THEN ScanModifiers(s, [next EXCEPT !.has_hold = TRUE,
                 !.note.note_type = IF st.note.note_type = "touch"
                                    THEN "touch_hold" ELSE "hold"], current_bpm)
        ELSE IF char = "b"
        THEN ScanModifiers(s, BreakModifier(st, next), current_bpm)
        ELSE IF char = "x"
        THEN ScanModifiers(s, [next EXCEPT !.note.is_ex = TRUE], current_bpm)
        ELSE IF char = "f"
        THEN ScanModifiers(s, [next EXCEPT !.note.is_hanabi = TRUE], current_bpm)
        ELSE IF char = "$"
        THEN ScanModifiers(s, [next EXCEPT !.dollar_count = st.dollar_count + 1,
                 !.note.is_star_tap = TRUE,
                 !.note.is_fake_rotate = st.note.is_fake_rotate \/ st.dollar_count + 1 = 2],
                 current_bpm)
        ELSE IF char = "@"
        THEN ScanModifiers(s, next, current_bpm)
        ELSE IF char \in {"!", "?"}
        THEN ScanModifiers(s, [next EXCEPT !.note.is_no_slide_head = TRUE,
                 !.note.is_slide_no_head_fade =
                     st.note.is_slide_no_head_fade \/ char = "?"], current_bpm)
        ELSE IF char \in ShapeChars
        THEN SlideModifier(s, st, current_bpm)
        ELSE ScanModifiers(s, next, current_bpm)

\* the note with the hold time held = [exc, v]
WithHoldTime(note, held) ==
    [exc |-> held.exc, none |-> FALSE, note |-> [note EXCEPT !.hold_time = held.v]]

\* lines 684-689: the default hold time of a hold without a duration
DefaultHold(has_hold, note, current_bpm) ==
    IF has_hold /\ note.hold_time = Zero
    THEN WithHoldTime(note, ParseBeatValue(<<"1", "2", "8", "0", ":", "1">>, current_bpm))
    ELSE NoteResult(note)

\* lines 676-682: a "b" at position i, after the bracket
BreakAfter(s, note, i) ==
    IF i < Len(s) /\ At(s, i) = "b" /\ note.note_type # "slide"
    THEN [note EXCEPT !.is_break = TRUE] ELSE note

\* lines 676-689
BreakAndDefault(s, note, i, has_hold, current_bpm) ==
    DefaultHold(has_hold, BreakAfter(s, note, i), current_bpm)

\* lines 667-689, with the bracket's value held = [exc, v]
HoldBracket(s, st, close, held, current_bpm) ==
    IF held.exc # "none" THEN NoteRaises(held.exc)
    ELSE BreakAndDefault(s, [st.note EXCEPT !.hold_time = held.v],
                         AfterBracket(s, close), st.has_hold, current_bpm)

\* lines 661-689, with the bracket content ending at close
HoldBracketTo(s, st, close, current_bpm) ==
    HoldBracket(s, st, close, ParseBeatValue(Slice(s, st.i + 1, close), current_bpm),
                current_bpm)

\* the hold bracket, the trailing break and the default hold time
\* (lines 659-689)
HoldAndBreak(s, st, current_bpm) ==
    IF st.has_hold /\ ~st.has_slide /\ st.i < Len(s) /\ At(s, st.i) = "["
    THEN HoldBracketTo(s, st, SkipUntilIn(s, st.i + 1, {"]"}), current_bpm)
    ELSE BreakAndDefault(s, st.note, st.i, st.has_hold, current_bpm)

\* lines 659-689 after the modifier loop ended in state st
AfterModifiers(s, st, current_bpm) ==
    IF st.exc # "none" THEN NoteRaises(st.exc)
    ELSE HoldAndBreak(s, st, current_bpm)

\* lines 547-689 for the stripped note string s
NoteFromStripped(s, current_bpm) ==
    IF s = <<>> THEN NoNote
    ELSE IF Head(s) \notin TouchAreas /\ Head(s) \notin Digits
    THEN NoteRaises("ValueError")
    ELSE AfterModifiers(s, ScanModifiers(s, InitialScan(s), current_bpm), current_bpm)

\* ChartLoader._parse_note_from_string; none = TRUE is the None result
ParseNoteFromString(note_string, current_bpm) ==
    NoteFromStripped(Strip(note_string), current_bpm)

\* ------------------------------------------------------------------------
\* Chained slides and note groups
\* ------------------------------------------------------------------------
\* a list of notes / a raised exception, as results [exc, notes]
Notes(notes) == [exc |-> "none", notes |-> notes]
NotesRaise(e) == [exc |-> e, notes |-> <<>>]

\* faulty variant of SubsequentSlide: the chained track keeps its head
SubsequentSlide_WithHead(part, base_position, base_wait_time, slide_duration) ==
    [NoteData("slide", base_position, IntToStr(base_position) \o part)
        EXCEPT !.slide_time = slide_duration,
               !.slide_wait_time = base_wait_time,
               !.slide_end_position = ExtractEndPosition(part)]

\* faulty variant of SubsequentSlide: the chained track starts where it ends
SubsequentSlide_Moved(part, base_position, base_wait_time, slide_duration) ==
    [NoteData("slide", ExtractEndPosition(part), IntToStr(base_position) \o part)
        EXCEPT !.slide_time = slide_duration,
               !.slide_wait_time = base_wait_time,
               !.slide_end_position = ExtractEndPosition(part),
               !.is_no_slide_head = TRUE]

\* the note _parse_multiple_slides builds for one chained track (lines 468-476)
SubsequentSlide(part, base_position, base_wait_time, slide_duration) ==
    [NoteData("slide", base_position, IntToStr(base_position) \o part)
        EXCEPT !.slide_time = slide_duration,
               !.slide_wait_time = base_wait_time,
               !.slide_end_position = ExtractEndPosition(part),
               !.is_no_slide_head = TRUE]

\* lines 464-477: the chained track part resolved to track, before the
\* notes rest of the later parts
ChainTrack(part, track, rest, base_position, base_wait_time) ==
    IF track.exc # "none" THEN NotesRaise(track.exc)
    ELSE IF track.none THEN rest
    ELSE [exc |-> rest.exc,
          notes |-> <<SubsequentSlide(part, base_position, base_wait_time, track.dur)>>
                    \o rest.notes]

\* lines 458-477: one stripped part
ChainPart(part, rest, base_position, base_wait_time, current_bpm) ==
    IF part = <<>> THEN rest
    ELSE ChainTrack(part, ParseSlideTrackFromString(part, current_bpm), rest,
                    base_position, base_wait_time)

\* the loop over parts[1:] of _parse_multiple_slides (lines 457-477)
RECURSIVE ChainedSlides(_, _, _, _, _)
ChainedSlides(parts, k, base_position, base_wait_time, current_bpm) ==
    IF k > Len(parts) THEN Notes(<<>>)
    ELSE ChainPart(Strip(parts[k]),
                   ChainedSlides(parts, k + 1, base_position, base_wait_time, current_bpm),
                   base_position, base_wait_time, current_bpm)

\* line 479: slides if len(slides) > 1 else None
FirstAndChain(first_slide, chain) ==
    IF chain.exc # "none" THEN NotesRaise(chain.exc)
    ELSE IF chain.notes = <<>> THEN Notes(<<>>)
    ELSE Notes(<<first_slide>> \o chain.notes)

\* lines 439-479, with the first slide first and the parts between "*"
MultipleSlides(first, parts, current_bpm) ==
    IF first.exc # "none" THEN NotesRaise(first.exc)
    ELSE IF first.none \/ first.note.note_type # "slide" THEN NotesRaise("ValueError")
    ELSE FirstAndChain([first.note EXCEPT !.note_content = parts[1]],
                       ChainedSlides(parts, 2, first.note.position,
                                     first.note.slide_wait_time, current_bpm))

\* ChartLoader._parse_multiple_slides; notes = <<>> is the None result
ParseMultipleSlides(note_str, current_bpm) ==
    MultipleSlides(ParseNoteFromString(note_str, current_bpm), Split(note_str, "*"),
                   current_bpm)

\* a NoteData or None as a list of notes
AsNotes(single) ==
    [exc |-> single.exc,
     notes |-> IF single.exc # "none" \/ single.none THEN <<>> ELSE <<single.note>>]

\* ChartLoader._parse_note: the notes of one token (a NoteData, a list of
\* them, or None) as a sequence
ParseNote(note_str, current_bpm) ==
    IF HasAny(note_str, ShapeChars) /\ Has(note_str, "*")
    THEN ParseMultipleSlides(note_str, current_bpm)
    ELSE AsNotes(ParseNoteFromString(note_str, current_bpm))

\* the characters that end a token in _process_single_group (line 380)
TokenEnd == {",", "/", "\n", " "}
\* the characters that end a note group (lines 306, 318, 341)
GroupEnd == {",", "\n"}

\* (notes, new position)
AtPosition(parsed, position) ==
    [exc |-> parsed.exc, notes |-> parsed.notes, i |-> position]

\* lines 384-387, for the token simai[start_pos:end]
TokenTo(simai, start_pos, end, current_bpm) ==
    IF end > start_pos
    THEN AtPosition(ParseNote(Slice(simai, start_pos, end), current_bpm), end)
    ELSE AtPosition(Notes(<<>>), end)

\* ChartLoader._process_single_group: the token at start_pos
ProcessSingleGroup(simai, start_pos, current_bpm) ==
    TokenTo(simai, start_pos, SkipUntilIn(simai, start_pos, TokenEnd), current_bpm)

\* faulty variant of HasSlash: the look-ahead never finds a "/"
HasSlash_Never(simai, lookahead, paren_depth) == FALSE

\* the look-ahead of _parse_note_group (lines 303-314): is there a "/" at
\* bracket depth 0 before the end of the group
RECURSIVE HasSlash(_, _, _)
HasSlash(simai, lookahead, paren_depth) ==
    IF ~(lookahead < Len(simai) /\ At(simai, lookahead) \notin GroupEnd) THEN FALSE
    ELSE IF At(simai, lookahead) = "[" THEN HasSlash(simai, lookahead + 1, paren_depth + 1)
    ELSE IF At(simai, lookahead) = "]" THEN HasSlash(simai, lookahead + 1, paren_depth - 1)
    ELSE IF At(simai, lookahead) = "/" /\ paren_depth = 0 THEN TRUE
    ELSE HasSlash(simai, lookahead + 1, paren_depth)

RECURSIVE EachLoop(_, _, _, _)

\* lines 327-336: the token at i parsed to one
EachToken(simai, i, notes, one, current_bpm) ==
    IF one.exc # "none" THEN AtPosition(NotesRaise(one.exc), i)
    ELSE IF one.notes # <<>>
    THEN EachLoop(simai, one.i, notes \o one.notes, current_bpm)
    ELSE AtPosition(Notes(notes), i)

\* the EACH loop of _parse_note_group (lines 318-336)
EachLoop(simai, i, notes, current_bpm) ==
    IF ~(i < Len(simai) /\ At(simai, i) \notin GroupEnd)
    THEN AtPosition(Notes(notes), i)
    ELSE IF At(simai, i) \in {"/", " ", "\t", "\r"}
    THEN EachLoop(simai, i + 1, notes, current_bpm)
    ELSE EachToken(simai, i, notes, ProcessSingleGroup(simai, i, current_bpm),
                   current_bpm)

\* lines 353-357: the notes parsed of one segment before the notes rest of
\* the later segments
SegmentNotes(parsed, rest) ==
    IF parsed.exc # "none" THEN NotesRaise(parsed.exc)
    ELSE [exc |-> rest.exc, notes |-> parsed.notes \o rest.notes]

\* lines 349-357: one stripped segment
Segment(segment, rest, current_bpm) ==
    IF segment = <<>> THEN rest
    ELSE SegmentNotes(ParseNote(segment, current_bpm), rest)

\* the pseudo-EACH loop of _parse_note_group (lines 347-357)
RECURSIVE SegmentLoop(_, _, _)
SegmentLoop(segments, k, current_bpm) ==
    IF k > Len(segments) THEN Notes(<<>>)
    ELSE Segment(Strip(segments[k]), SegmentLoop(segments, k + 1, current_bpm),
                 current_bpm)

\* lines 338-359: the group simai[start_pos:group_end] without "/"
SingleGroup(simai, start_pos, group_end, current_bpm) ==
    AtPosition(SegmentLoop(Split(Slice(simai, start_pos, group_end), Backtick), 1,
                           current_bpm),
               group_end)

\* ChartLoader._parse_note_group: (notes, new position)
ParseNoteGroup(simai, start_pos, current_bpm) ==
    IF HasSlash(simai, start_pos, 0)
    THEN EachLoop(simai, start_pos, <<>>, current_bpm)
    ELSE SingleGroup(simai, start_pos, SkipUntilIn(simai, start_pos, GroupEnd),
                     current_bpm)

\* ------------------------------------------------------------------------
\* Input texts
\* ------------------------------------------------------------------------
\* longest text of the pool, in tokens
MaxTokens == 3
\* iterations of the scanner loop a run may take
MaxIter == 14
\* invocations of _parse_simai in one run
MaxCalls == 2

\* the tokens the pool texts are put together from
Pool ==
    { <<"1">>,
      <<"2", "h">>,
      <<",">>,
      <<"\n">>,
      <<"/">>,
      <<Backtick>>,
      <<"1", "-", "5", "[", "8", ":", "3", "]">>,
      <<"4", "-", "1", "*">>,
      <<"(", "6", "0", ")">>,
      <<"(", "0", ")">>,
      <<"{", "8", "}">>,
      <<"{", "0", "}">>,
      <<"x">>,
      <<" ">> }

RECURSIVE TextsOf(_)
TextsOf(k) ==
    IF k = 0 THEN {<<>>}
    ELSE {t \o tok : t \in TextsOf(k - 1), tok \in Pool}

PoolTexts == UNION {TextsOf(k) : k \in 0..MaxTokens}

\* the timing example of the specification
Example1 ==
    <<"(", "1", "2", "0", ")", "{", "4", "}", "1", ",", "2", ",", "3", ",", "4", ",">>
\* a true EACH group
Example2 ==
    <<"1", "/", "2", ",">>
\* a pseudo-EACH group
Example3 ==
    <<"1", Backtick, "2", ",">>
\* holds without a bracket, button and touch, at a changed tempo
Example4 ==
    <<"1", "h", ",", "(", "9", "0", ")", "C", "1", "h", ",">>
\* a hold without a bracket after a negative tempo
Example5 ==
    <<"(", "-", "1", "2", "0", ")", "1", "h", ",">>
\* the bracket notations
Example6 ==
    <<"1", "-", "5", "[", "8", ":", "3", "]">>
Example7 ==
    <<"1", "-", "5", "[", "1", "6", "0", "#", "8", ":", "3", "]">>
Example8 ==
    <<"1", "-", "5", "[", "3", "#", "#", "1", ".", "5", "]">>
\* a two-track chained slide
Example9 ==
    <<"1", "-", "4", "[", "4", ":", "3", "]", "*", "-", "6", "[", "8", ":", "5", "]">>
\* groups on consecutive lines without an advance
Example10 ==
    <<"1", "\n", "2", ",">>
\* a comment, an end marker and directives that do not parse
Example11 ==
    <<"1", ",", "|", "|", "2", "\n", "(", "x", ")", "{", "y", "}", "3", ",", "\t", "4", "\n", "E", "\n">>
\* an EACH group whose first segment is a slide with a trailing star
Example12 ==
    <<"1", "-", "5", "*", "/", "2", ",">>
\* a bracket divisor of zero
Example13 ==
    <<"1", "h", "[", "0", ":", "1", "]", ",">>
Example14 ==
    <<"2", "-", "6", "[", "0", ":", "1", "]", ",">>
\* a starred token that is not a slide
Example15 ==
    <<"1", "[", "-", "*", "]", ",">>
\* a pseudo-EACH segment that starts with no position
Example16 ==
    <<"1", Backtick, "x", ",">>
\* bracket tempos and explicit waits at a tempo other than the default
Example17 ==
    <<"(", "6", "0", ")", "1", "-", "5", "[", "3", "#", "#", "1", ".", "5", "]", ",", "1", "-", "5", "[", "1", "6", "0", "#", "8", ":", "3", "]">>
\* a negative tempo between two groups
Example18 ==
    <<"1", ",", "(", "-", "6", "0", ")", ",", "2">>
\* directives that do not parse after directives that do
Example19 ==
    <<"(", "6", "0", ")", "{", "8", "}", "(", "x", ")", "{", "y", "}", "1", ",", "2">>
\* a text that ends with the end marker on a line of its own
Example20 ==
    <<"(", "6", "0", ")", "{", "8", "}", "(", "x", ")", "{", "y", "}", "1", ",", "\n", "E", "\n">>
\* an EACH segment that starts with the digit 9
Example21 ==
    <<"1", "/", "9", ",">>
\* a touch note with a two-digit sensor index and a slide to 0
Example22 ==
    <<"C", "1", "2", ",", "1", "-", "0", "[", "8", ":", "1", "]">>
\* brackets that are not closed: on a chained track, a hold, a first track
Example23 ==
    <<"1", "-", "4", "[", "4", ":", "3", "]", "*", "-", "6", "[", "8", ":", "5">>
Example24 ==
    <<"1", "h", "[", "4", ":", "1">>
Example25 ==
    <<"1", "-", "5", "[", "8", ":", "3">>
\* a chained track without a bracket after a track with an explicit wait
Example26 ==
    <<"1", "-", "4", "[", "3", "#", "#", "1", "]", "*", "-", "6", ",">>
\* slides without a bracket and with an empty one, at tempo 0 too
Example27 ==
    <<"(", "6", "0", ")", "1", "-", "5", ",", "1", "-", "5", "[", "]", ",", "(", "0", ")", "1", "-", "5", ",">>
\* true EACH groups with a space or a slash inside a bracket
Example28 ==
    <<"1", "-", "5", "[", "3", "#", "#", " ", "1", "]", "/", "2", ",">>
\* the same with a slash inside the bracket
Example29 ==
    <<"1", "-", "5", "[", "4", ":", "1", "/", "2", "]", "/", "2", ",">>
\* a b before the slide shape and a b after the bracket
Example30 ==
    <<"1", "b", "-", "5", "[", "8", ":", "3", "]">>
\* a b after the bracket
Example31 ==
    <<"1", "-", "5", "[", "8", ":", "3", "]", "b">>
\* three chained tracks: a headless first one with a bracket tempo, one with a bracket, one without
Example32 ==
    <<"1", "?", "-", "4", "[", "1", "6", "0", "#", "4", ":", "1", "]", "*", "-", "6", "[", "8", ":", "5", "]", "*", "-", "2">>
\* a bracket tempo that is no number, before a beat fraction and before bare seconds
Example33 ==
    <<"1", "-", "5", "[", "x", "#", "8", ":", "3", "]">>
\* the same before bare seconds
Example34 ==
    <<"1", "-", "5", "[", "x", "#", "2", "]">>
\* a hold whose bracket resolves to no time at all
Example35 ==
    <<"1", "h", "[", "4", ":", "0", "]", ",">>
\* four modifiers on a tap
Example36 ==
    <<"1", "b", "$", "h", "!", ",">>
\* modifiers on a touch note
Example37 ==
    <<"C", "1", "f", "h", "x", ",">>
\* modifiers before a slide shape
Example38 ==
    <<"1", "?", "b", "@", "-", "5", "[", "8", ":", "3", "]">>
\* modifiers before a hold bracket
Example39 ==
    <<"1", "x", "h", "b", "[", "4", ":", "1", "]", ",">>
\* a comment after a note group on the same line, before any comma
Example40 ==
    <<"1", "|", "|", "h", "b", "\n", ",">>
\* a slide with a bracket tempo, then an advance and a plain slide
Example41 ==
    <<"1", "-", "5", "[", "1", "6", "0", "#", "8", ":", "3", "]", ",", "2", "-", "6", "[", "8", ":", "3", "]", ",">>

Examples ==
    {Example1, Example2, Example3, Example4, Example5, Example6, Example7, Example8,
     Example9, Example10, Example11, Example12, Example13, Example14, Example15, Example16,
     Example17, Example18, Example19, Example20, Example21, Example22, Example23,
     Example24, Example25, Example26, Example27, Example28, Example29, Example30, Example31, Example32, Example33, Example34, Example35, Example36, Example37, Example38, Example39, Example40, Example41}

\* the first-beat offsets (&first=) of the model
FirstBeats == {Zero, Rat(1, 4)}

\* ------------------------------------------------------------------------
\* ChartLoader._parse_simai as a state machine: one action per branch of
\* the scanner loop
\* ------------------------------------------------------------------------
VARIABLES
    simai_text,         \* argument: the chart text
    first_beat_time,    \* argument: the offset of the first beat
    timing_points,      \* the list under construction / returned
    current_bpm,
    current_time,
    beats,
    y_pos,
    x_pos,
    i,                  \* the cursor
    pc,                 \* "loop", "done" (returned) or "raised"
    exc,                \* the exception that ended the call, else "none"
    iter,               \* iterations of the loop performed so far
    groups_in_interval, \* TimingPoints appended since the last ","
    calls,              \* invocations so far, this one included
    returned,           \* the (text, offset, list) of every call that returned
    tokens,             \* tokenize_simai: the tokens yielded so far
    tok_i,              \* tokenize_simai: the cursor
    tok_pc              \* tokenize_simai: "idle" (not called), "loop", "done"
                        \* (exhausted) or "raised"

\* ChartLoader.load_chart and the consumers of the Chart it returns
VARIABLES
    lines,              \* load_chart: the lines of the file (f.readlines())
    line_i,             \* load_chart: the line index i
    metadata,           \* load_chart: the ChartMetadata under construction
    difficulty_charts,  \* load_chart: chart.difficulty_charts
    diff_idx,           \* load_chart: the difficulty of the block being parsed
    load_pc,            \* "idle" (not called), "loop", "parse" (inside
                        \* _parse_simai), "done" (returned) or "raised"
    load_iter,          \* iterations of the line loop performed so far
    sound_timings,      \* the last result of SoundTimingGenerator.generate
    renderer_majson,    \* the last result of renderer.generate_majson
    majdata_majson      \* the last result of majdata.json.generate_majson

chart_vars == <<lines, line_i, metadata, difficulty_charts, diff_idx, load_pc,
                load_iter, sound_timings, renderer_majson, majdata_majson>>

vars == <<simai_text, first_beat_time, timing_points, current_bpm, current_time,
          beats, y_pos, x_pos, i, pc, exc, iter, groups_in_interval, calls, returned,
          tokens, tok_i, tok_pc, chart_vars>>

\* dataclass ChartMetadata with its defaults (lines 46-55)
ChartMetadata ==
    [title |-> <<"d", "e", "f", "a", "u", "l", "t">>,
     artist |-> <<"d", "e", "f", "a", "u", "l", "t">>,
     designer |-> <<"d", "e", "f", "a", "u", "l", "t">>,
     first_beat_time |-> Zero,
     levels |-> [k \in 1..7 |-> <<>>],
     other_commands |-> <<>>]

\* no call of generate or generate_majson has returned yet
NoResult == [exc |-> "none", called |-> FALSE]

\* load_chart has not been called: the state of its locals and consumers
ChartIdle ==
    /\ lines = <<>>
    /\ line_i = 0
    /\ metadata = ChartMetadata
    /\ difficulty_charts = <<>>
    /\ diff_idx = 0
    /\ load_pc = "idle"
    /\ load_iter = 0
    /\ sound_timings = NoResult
    /\ renderer_majson = NoResult
    /\ majdata_majson = NoResult

\* lines 181-188 of chart_loader.py and line 65 of tokenizer.py: the text is
\* given either to _parse_simai, with an offset, or to tokenize_simai
Init ==
    /\ simai_text \in Examples \cup PoolTexts
    /\ \/ tok_pc = "idle" /\ first_beat_time \in FirstBeats
       \/ tok_pc = "loop" /\ first_beat_time = Zero
    /\ tokens = <<>>
    /\ tok_i = 0
    /\ timing_points = <<>>
    /\ current_bpm = IntRat(120)
    /\ current_time = first_beat_time
    /\ beats = 4
    /\ y_pos = 0
    /\ x_pos = 0
    /\ i = 0
    /\ pc = "loop"
    /\ exc = "none"
    /\ iter = 0
    /\ groups_in_interval = 0
    /\ calls = 1
    /\ returned = {}
    /\ ChartIdle

\* ChartLoader._is_note_start
IsNoteStart(text, pos) ==
    /\ pos < Len(text)
    /\ At(text, pos) \in {"1", "2", "3", "4", "5", "6", "7", "8", "E"} \cup TouchAreas

\* the "||" test of line 202
IsComment(text, pos) ==
    At(text, pos) = "|" /\ pos + 1 < Len(text) /\ At(text, pos + 1) = "|"

\* the end-of-difficulty test of line 247
IsEndMarker(text, pos) ==
    At(text, pos) = "E" /\ (pos + 1 >= Len(text) \/ At(text, pos + 1) = "\n")

\* faulty variant of BeatUnit: the division is ignored
BeatUnit_NoDivision(bpm, division) == RDiv(Sixty, bpm)

\* the seconds one "," adds (line 242), for bpm # 0 and division # 0
BeatUnit(bpm, division) ==
    RMul(RDiv(Sixty, bpm), RDiv(Four, IntRat(division)))

\* dataclass TimingPoint
TimingPoint(time, bpm, notes, y, x) ==
    [time |-> time, bpm |-> bpm, notes |-> notes,
     raw_text_position_y |-> y, raw_text_position_x |-> x]

\* one more iteration of "while i < len(simai_text)" that reads char
Iterate ==
    /\ tok_pc = "idle"
    /\ pc = "loop"
    /\ i < Len(simai_text)
    /\ iter < MaxIter
    /\ iter' = iter + 1
    /\ UNCHANGED <<simai_text, first_beat_time, calls, returned, tokens, tok_i, tok_pc,
                   chart_vars>>

\* the iteration does not leave the loop
Continue == pc' = "loop" /\ exc' = "none"

\* lines 193-197
Newline ==
    /\ Iterate
    /\ At(simai_text, i) = "\n"
    /\ y_pos' = y_pos + 1
    /\ x_pos' = 0
    /\ i' = i + 1
    /\ Continue
    /\ UNCHANGED <<timing_points, current_bpm, current_time, beats, groups_in_interval>>

\* lines 201-205
Comment ==
    /\ Iterate
    /\ At(simai_text, i) # "\n"
    /\ IsComment(simai_text, i)
    /\ x_pos' = x_pos + 1
    /\ i' = SkipUntilIn(simai_text, i, {"\n"})
    /\ Continue
    /\ UNCHANGED <<timing_points, current_bpm, current_time, beats, y_pos,
                   groups_in_interval>>

\* lines 207-210
Whitespace ==
    /\ Iterate
    /\ At(simai_text, i) \in {" ", "\t", "\r"}
    /\ x_pos' = x_pos + 1
    /\ i' = i + 1
    /\ Continue
    /\ UNCHANGED <<timing_points, current_bpm, current_time, beats, y_pos,
                   groups_in_interval>>

\* lines 212-224
Bpm ==
    /\ Iterate
    /\ At(simai_text, i) = "("
    /\ LET close   == SkipUntilIn(simai_text, i + 1, {")"})
           bpm_str == Slice(simai_text, i + 1, close)
           value   == ParseFloat(bpm_str)
       IN  /\ current_bpm' = IF value.ok THEN value.v ELSE current_bpm
           /\ i' = close + 1
    /\ x_pos' = x_pos + 1
    /\ Continue
    /\ UNCHANGED <<timing_points, current_time, beats, y_pos, groups_in_interval>>

\* lines 226-238
Division ==
    /\ Iterate
    /\ At(simai_text, i) = "{"
    /\ LET close     == SkipUntilIn(simai_text, i + 1, {"}"})
           beats_str == Slice(simai_text, i + 1, close)
           value     == ParseInt(beats_str)
       IN  /\ beats' = IF value.ok THEN value.v ELSE beats
           /\ i' = close + 1
    /\ x_pos' = x_pos + 1
    /\ Continue
    /\ UNCHANGED <<timing_points, current_bpm, current_time, y_pos, groups_in_interval>>

\* lines 240-244
Comma ==
    /\ Iterate
    /\ At(simai_text, i) = ","
    /\ x_pos' = x_pos + 1
    /\ IF current_bpm.n = 0 \/ beats = 0
       THEN /\ pc' = "raised"
            /\ exc' = "ZeroDivisionError"
            /\ UNCHANGED <<current_time, i, groups_in_interval>>
       ELSE /\ current_time' = RAdd(current_time, BeatUnit(current_bpm, beats))
            /\ i' = i + 1
            /\ groups_in_interval' = 0
            /\ Continue
    /\ UNCHANGED <<timing_points, current_bpm, beats, y_pos>>

\* lines 246-250
EndMarker ==
    /\ Iterate
    /\ IsEndMarker(simai_text, i)
    /\ x_pos' = x_pos + 1
    /\ i' = i + 1
    /\ Continue
    /\ UNCHANGED <<timing_points, current_bpm, current_time, beats, y_pos,
                   groups_in_interval>>

\* lines 257-267: the group (notes, new_i), or its exception
Emit(group) ==
    IF group.exc # "none"
    THEN /\ pc' = "raised"
         /\ exc' = group.exc
         /\ UNCHANGED <<timing_points, i, groups_in_interval>>
    ELSE /\ IF group.notes # <<>>
            THEN /\ timing_points' = Append(timing_points,
                        TimingPoint(current_time, current_bpm, group.notes,
                                    y_pos, x_pos))
                 /\ groups_in_interval' = groups_in_interval + 1
            ELSE UNCHANGED <<timing_points, groups_in_interval>>
         /\ i' = group.i
         /\ Continue

\* a note group that leaves the tempo of its slide bracket in effect
NoteGroup_BracketTempo ==
    /\ Iterate
    /\ IsNoteStart(simai_text, i)
    /\ ~IsEndMarker(simai_text, i)
    /\ x_pos' = x_pos + 1
    /\ Emit(ParseNoteGroup(simai_text, i, current_bpm))
    /\ current_bpm' = IF Has(simai_text, "#") THEN IntRat(160) ELSE current_bpm
    /\ UNCHANGED <<current_time, beats, y_pos>>

\* lines 252-268
NoteGroup ==
    /\ Iterate
    /\ IsNoteStart(simai_text, i)
    /\ ~IsEndMarker(simai_text, i)
    /\ x_pos' = x_pos + 1
    /\ Emit(ParseNoteGroup(simai_text, i, current_bpm))
    /\ UNCHANGED <<current_bpm, current_time, beats, y_pos>>

\* line 270: any other character
Other ==
    /\ Iterate
    /\ At(simai_text, i) \notin {"\n", " ", "\t", "\r", "(", "{", ","}
    /\ ~IsComment(simai_text, i)
    /\ ~IsNoteStart(simai_text, i)
    /\ x_pos' = x_pos + 1
    /\ i' = i + 1
    /\ Continue
    /\ UNCHANGED <<timing_points, current_bpm, current_time, beats, y_pos,
                   groups_in_interval>>

\* line 272: the loop condition fails and the list is returned
Return ==
    /\ tok_pc = "idle"
    /\ pc = "loop"
    /\ i >= Len(simai_text)
    /\ pc' = "done"
    /\ returned' = returned \cup {[text |-> simai_text, first |-> first_beat_time,
                                    result |-> timing_points]}
    /\ UNCHANGED <<simai_text, first_beat_time, timing_points, current_bpm,
                   current_time, beats, y_pos, x_pos, i, exc, iter, groups_in_interval,
                   calls, tokens, tok_i, tok_pc, chart_vars>>

\* the arguments of the call that follows a returned call: the same ones
\* again, or the timing example after one of the example texts
NextArguments ==
    {<<simai_text, first_beat_time>>}
        \cup (IF simai_text \in Examples THEN {<<Example1, Zero>>} ELSE {})

\* faulty variant of Invoke: the list of the previous call is kept
Invoke_KeepsList(text, first) ==
    /\ simai_text' = text
    /\ first_beat_time' = first
    /\ timing_points' = timing_points
    /\ current_bpm' = IntRat(120)
    /\ current_time' = first
    /\ beats' = 4
    /\ y_pos' = 0
    /\ x_pos' = 0
    /\ i' = 0

\* lines 181-188: the locals of a new invocation
Invoke(text, first) ==
    /\ simai_text' = text
    /\ first_beat_time' = first
    /\ timing_points' = <<>>
    /\ current_bpm' = IntRat(120)
    /\ current_time' = first
    /\ beats' = 4
    /\ y_pos' = 0
    /\ x_pos' = 0
    /\ i' = 0

\* load_chart, line 137: _parse_simai is invoked once more (once per
\* &inote_ block of the file)
Call ==
    /\ pc = "done"
    /\ calls < MaxCalls
    /\ \E args \in NextArguments : Invoke(args[1], args[2])
    /\ calls' = calls + 1
    /\ pc' = "loop"
    /\ exc' = "none"
    /\ iter' = 0
    /\ groups_in_interval' = 0
    /\ UNCHANGED <<returned, tokens, tok_i, tok_pc, chart_vars>>

\* ------------------------------------------------------------------------
\* tokenize_simai (simai/tokenizer.py) as a state machine: one action per
\* branch of its loop
\* ------------------------------------------------------------------------
\* the dataclasses BPM, Division, NoteGroup and AdvanceTime
Token(type, value) == [type |-> type, value |-> value]

\* one more iteration of "while i < len(simai_text)" of the generator
TokenizeIterate ==
    /\ tok_pc = "loop"
    /\ tok_i < Len(simai_text)
    /\ UNCHANGED <<simai_text, first_beat_time, timing_points, current_bpm,
                   current_time, beats, y_pos, x_pos, i, pc, exc, iter,
                   groups_in_interval, calls, returned, chart_vars>>

\* the iteration ends with "continue" at cursor k
TokenizeContinue(k) == tok_i' = k /\ tok_pc' = "loop"

\* tokenizer.py lines 70-72
TokenizeNewline ==
    /\ TokenizeIterate
    /\ At(simai_text, tok_i) = "\n"
    /\ TokenizeContinue(tok_i + 1)
    /\ UNCHANGED tokens

\* tokenizer.py lines 75-78
TokenizeComment ==
    /\ TokenizeIterate
    /\ IsComment(simai_text, tok_i)
    /\ TokenizeContinue(SkipUntilIn(simai_text, tok_i, {"\n"}))
    /\ UNCHANGED tokens

\* tokenizer.py lines 81-83
TokenizeWhitespace ==
    /\ TokenizeIterate
    /\ At(simai_text, tok_i) \in {" ", "\t", "\r"}
    /\ TokenizeContinue(tok_i + 1)
    /\ UNCHANGED tokens

\* tokenizer.py lines 92-96: yield the token of a value that parsed
Yield(type, parsed) ==
    tokens' = IF parsed.ok THEN Append(tokens, Token(type, parsed.v)) ELSE tokens

\* tokenizer.py lines 86-98
TokenizeBpm ==
    /\ TokenizeIterate
    /\ At(simai_text, tok_i) = "("
    /\ Yield("bpm", ParseFloat(Slice(simai_text, tok_i + 1,
                                     SkipUntilIn(simai_text, tok_i + 1, {")"}))))
    /\ TokenizeContinue(SkipUntilIn(simai_text, tok_i + 1, {")"}) + 1)

\* tokenizer.py lines 101-113
TokenizeDivision ==
    /\ TokenizeIterate
    /\ At(simai_text, tok_i) = "{"
    /\ Yield("division", ParseInt(Slice(simai_text, tok_i + 1,
                                        SkipUntilIn(simai_text, tok_i + 1, {"}"}))))
    /\ TokenizeContinue(SkipUntilIn(simai_text, tok_i + 1, {"}"}) + 1)

\* tokenizer.py lines 116-119
TokenizeAdvance ==
    /\ TokenizeIterate
    /\ At(simai_text, tok_i) = ","
    /\ tokens' = Append(tokens, Token("advance", <<>>))
    /\ TokenizeContinue(tok_i + 1)

\* tokenizer.py lines 122-125
TokenizeEndMarker ==
    /\ TokenizeIterate
    /\ IsEndMarker(simai_text, tok_i)
    /\ TokenizeContinue(tok_i + 1)
    /\ UNCHANGED tokens

\* tokenizer.py lines 129-133: the group up to the first "," at comma and
\* the first line end at newline (-1: str.index raises ValueError)
YieldGroup(comma, newline) ==
    IF comma = -1 \/ newline = -1
    THEN /\ tok_pc' = "raised"
         /\ UNCHANGED <<tokens, tok_i>>
    ELSE /\ tokens' = Append(tokens,
                Token("notes", Slice(simai_text, tok_i,
                                     IF comma < newline THEN comma ELSE newline)))
         /\ TokenizeContinue(IF comma < newline THEN comma ELSE newline)

\* tokenizer.py lines 128-134
TokenizeNoteGroup ==
    /\ TokenizeIterate
    /\ IsNoteStart(simai_text, tok_i)
    /\ ~IsEndMarker(simai_text, tok_i)
    /\ YieldGroup(Find(simai_text, ",", tok_i), Find(simai_text, "\n", tok_i))

\* tokenizer.py line 136: any other character
TokenizeOther ==
    /\ TokenizeIterate
    /\ At(simai_text, tok_i) \notin {"\n", " ", "\t", "\r", "(", "{", ","}
    /\ ~IsComment(simai_text, tok_i)
    /\ ~IsNoteStart(simai_text, tok_i)
    /\ TokenizeContinue(tok_i + 1)
    /\ UNCHANGED tokens

\* tokenizer.py line 67: the loop condition fails, the generator is exhausted
TokenizeReturn ==
    /\ tok_pc = "loop"
    /\ tok_i >= Len(simai_text)
    /\ tok_pc' = "done"
    /\ UNCHANGED <<simai_text, first_beat_time, timing_points, current_bpm,
                   current_time, beats, y_pos, x_pos, i, pc, exc, iter,
                   groups_in_interval, calls, returned, tokens, tok_i, chart_vars>>

Next ==
    \/ Newline
    \/ Comment
    \/ Whitespace
    \/ Bpm
    \/ Division
    \/ Comma
    \/ EndMarker
    \/ NoteGroup
    \/ Other
    \/ Return
    \/ Call
    \/ TokenizeNewline
    \/ TokenizeComment
    \/ TokenizeWhitespace
    \/ TokenizeBpm
    \/ TokenizeDivision
    \/ TokenizeAdvance
    \/ TokenizeEndMarker
    \/ TokenizeNoteGroup
    \/ TokenizeOther
    \/ TokenizeReturn

Spec == Init /\ [][Next]_vars

\* ------------------------------------------------------------------------
\* ChartLoader.load_chart as a state machine: one action per branch of its
\* line loop; the _parse_simai call of a block runs the machine above
\* ------------------------------------------------------------------------
MaxLines == 3
MaxLoadIter == 9

\* the offset line
Line1 ==
    <<"&", "f", "i", "r", "s", "t", "=", "0", ".", "2", "5", "\n">>
\* a difficulty block: a break hold
Line2 ==
    <<"&", "i", "n", "o", "t", "e", "_", "1", "=", "1", "h", "b", "[", "4", ":", "1", "]", ",", "\n">>
\* a line that is no command
Line3 ==
    <<"2", "x", ",", "\n">>
\* an &inote_ line without a digit
Line4 ==
    <<"&", "i", "n", "o", "t", "e", "_", "x", "=", "1", ",", "\n">>
\* the title line
Line5 ==
    <<"&", "t", "i", "t", "l", "e", "=", "t", "\n">>
\* a difficulty block whose first note has no slide head
Line6 ==
    <<"&", "i", "n", "o", "t", "e", "_", "2", "=", "1", "?", "-", "5", "[", "8", ":", "3", "]", ",", "\n">>

LinePool == {Line1, Line2, Line3, Line4, Line5, Line6}

\* every kind of line, and a block that takes every branch of the scanner
File1 ==
    <<<<"&", "t", "i", "t", "l", "e", "=", "t", "\n">>,
      <<"&", "a", "r", "t", "i", "s", "t", "=", "a", "\n">>,
      <<"&", "d", "e", "s", "=", "d", "\n">>,
      <<"&", "l", "v", "_", "1", "=", "3", "\n">>,
      <<"&", "o", "t", "h", "e", "r", "=", "1", "\n">>,
      <<"&", "f", "i", "r", "s", "t", "=", "0", ".", "2", "5", "\n">>,
      <<"&", "i", "n", "o", "t", "e", "_", "1", "=", "(", "1", "2", "0", ")", "{", "4", "}", "1", ",", " ", "x", "|", "|", "c", "\n">>,
      <<"E", "\n">>>>
\* the offset line after the block
File2 ==
    <<<<"&", "i", "n", "o", "t", "e", "_", "1", "=", "1", ",", "\n">>,
      <<"&", "f", "i", "r", "s", "t", "=", "0", ".", "2", "5", "\n">>>>
\* an offset that is no number
File3 ==
    <<<<"&", "f", "i", "r", "s", "t", "=", "x", "\n">>,
      <<"&", "i", "n", "o", "t", "e", "_", "1", "=", "1", ",", "\n">>>>
\* a block for a difficulty outside 1..7
File4 ==
    <<<<"&", "i", "n", "o", "t", "e", "_", "9", "=", "1", ",", "\n">>>>
\* a block whose text makes _parse_simai raise
File5 ==
    <<<<"&", "i", "n", "o", "t", "e", "_", "1", "=", "(", "0", ")", "1", "h", ",", "\n">>>>
\* holds of every kind, a touch hold, a break slide and a touch
File6 ==
    <<<<"&", "i", "n", "o", "t", "e", "_", "1", "=", "1", "h", "[", "4", ":", "1", "]", "/", "2", "h", "x", "[", "4", ":", "1", "]", ",", "\n">>,
      <<"C", "1", "h", "f", "[", "4", ":", "1", "]", "/", "3", "b", ",", "\n">>,
      <<"1", "-", "5", "[", "8", ":", "3", "]", "b", "/", "B", "2", ",", "\n">>>>
\* a level line without a value, and a level outside 1..7
File7 ==
    <<<<"&", "l", "v", "_", "1", "=", "\n">>,
      <<"&", "l", "v", "_", "9", "=", "3", "\n">>,
      <<"&", "i", "n", "o", "t", "e", "_", "3", "=", "1", "!", ",", "2", ",", "\n">>>>

ExampleFiles == {File1, File2, File3, File4, File5, File6, File7}

\* the files of the model: the example files and every file of up to
\* MaxLines lines of the pool
Files == ExampleFiles \cup UNION {[1..n -> LinePool] : n \in 1..MaxLines}

\* s.startswith(prefix)
StartsWith(s, prefix) == Len(s) >= Len(prefix) /\ SubSeq(s, 1, Len(prefix)) = prefix

\* ChartLoader._get_value, with the index idx of the first "="
ValueFrom(line, idx) == IF idx >= 0 THEN Slice(line, idx + 1, Len(line)) ELSE <<>>

\* ChartLoader._get_value
GetValue(line) == ValueFrom(line, Find(line, "=", 0))

\* re.match(r"&inote_(\d)=", line) for a line that starts with &inote_
InoteMatch(line) == Len(line) >= 9 /\ At(line, 7) \in Digits /\ At(line, 8) = "="

\* re.match(r"&lv_(\d)=(.+)", line) for a line that starts with &lv_
LevelMatch(line) == Len(line) >= 7 /\ At(line, 4) \in Digits /\ At(line, 5) = "="

\* lines 130-134: the index of the first line at or after k that starts
\* with "&", else len(lines)
RECURSIVE BlockEnd(_, _)
BlockEnd(ls, k) ==
    IF k < Len(ls) /\ ~StartsWith(At(ls, k), <<"&">>) THEN BlockEnd(ls, k + 1) ELSE k

\* the lines ls[from:to] joined
RECURSIVE JoinLines(_, _, _)
JoinLines(ls, from, to) ==
    IF from >= to THEN <<>> ELSE At(ls, from) \o JoinLines(ls, from + 1, to)

\* the variables of _parse_simai and tokenize_simai
parser_vars == <<simai_text, first_beat_time, timing_points, current_bpm,
                 current_time, beats, y_pos, x_pos, i, pc, exc, iter,
                 groups_in_interval, calls, returned, tokens, tok_i, tok_pc>>

\* load_chart is called on a file; _parse_simai is not running
ChartInit ==
    /\ lines \in Files
    /\ line_i = 0
    /\ metadata = ChartMetadata
    /\ difficulty_charts = <<>>
    /\ diff_idx = 0
    /\ load_pc = "loop"
    /\ load_iter = 0
    /\ sound_timings = NoResult
    /\ renderer_majson = NoResult
    /\ majdata_majson = NoResult
    /\ simai_text = <<>>
    /\ first_beat_time = Zero
    /\ timing_points = <<>>
    /\ current_bpm = IntRat(120)
    /\ current_time = Zero
    /\ beats = 4
    /\ y_pos = 0
    /\ x_pos = 0
    /\ i = 0
    /\ pc = "idle"
    /\ exc = "none"
    /\ iter = 0
    /\ groups_in_interval = 0
    /\ calls = 0
    /\ returned = {}
    /\ tokens = <<>>
    /\ tok_i = 0
    /\ tok_pc = "idle"

\* line = lines[i].strip() (line 89)
CurrentLine == Strip(At(lines, line_i))

\* one more iteration of "while i < len(lines)"
LoadIterate ==
    /\ load_pc = "loop"
    /\ line_i < Len(lines)
    /\ load_iter < MaxLoadIter
    /\ load_iter' = load_iter + 1
    /\ UNCHANGED <<lines, sound_timings, renderer_majson, majdata_majson>>

\* an iteration that only sets metadata and moves to the next line
NextLine(new_metadata) ==
    /\ metadata' = new_metadata
    /\ line_i' = line_i + 1
    /\ UNCHANGED <<difficulty_charts, diff_idx, load_pc, parser_vars>>

\* lines 92-95
LoadTitle ==
    /\ LoadIterate
    /\ StartsWith(CurrentLine, <<"&", "t", "i", "t", "l", "e", "=">>)
    /\ NextLine([metadata EXCEPT !.title = GetValue(CurrentLine)])

\* lines 97-100
LoadArtist ==
    /\ LoadIterate
    /\ StartsWith(CurrentLine, <<"&", "a", "r", "t", "i", "s", "t", "=">>)
    /\ NextLine([metadata EXCEPT !.artist = GetValue(CurrentLine)])

\* lines 102-105
LoadDesigner ==
    /\ LoadIterate
    /\ StartsWith(CurrentLine, <<"&", "d", "e", "s", "=">>)
    /\ NextLine([metadata EXCEPT !.designer = GetValue(CurrentLine)])

\* lines 108-110 with value = float(_get_value(line)); a ValueError leaves
\* load_chart
SetFirst(value) ==
    IF value.ok
    THEN NextLine([metadata EXCEPT !.first_beat_time = value.v])
    ELSE /\ load_pc' = "raised"
         /\ UNCHANGED <<metadata, line_i, difficulty_charts, diff_idx, parser_vars>>

\* lines 107-110
LoadFirst ==
    /\ LoadIterate
    /\ StartsWith(CurrentLine, <<"&", "f", "i", "r", "s", "t", "=">>)
    /\ SetFirst(ParseFloat(GetValue(CurrentLine)))

\* lines 114-118: the level of difficulty level_idx
WithLevel(line, level_idx) ==
    IF LevelMatch(line) /\ 0 <= level_idx /\ level_idx < 7
    THEN [metadata EXCEPT !.levels[level_idx + 1] = Slice(line, 6, Len(line))]
    ELSE metadata

\* lines 112-120
LoadLevel ==
    /\ LoadIterate
    /\ StartsWith(CurrentLine, <<"&", "l", "v", "_">>)
    /\ NextLine(WithLevel(CurrentLine,
                          IF LevelMatch(CurrentLine)
                          THEN DigitVal(At(CurrentLine, 4)) - 1 ELSE -1))

\* lines 125-137: the block that starts at the current line ends before
\* line end; its text is given to _parse_simai with the offset read so far
ReadBlock(end) ==
    /\ diff_idx' = DigitVal(At(CurrentLine, 7)) - 1
    /\ line_i' = end
    /\ load_pc' = "parse"
    /\ Invoke(GetValue(CurrentLine) \o <<"\n">> \o JoinLines(lines, line_i + 1, end),
              metadata.first_beat_time)
    /\ pc' = "loop"
    /\ exc' = "none"
    /\ iter' = 0
    /\ groups_in_interval' = 0
    /\ calls' = calls + 1
    /\ UNCHANGED <<metadata, difficulty_charts, returned, tokens, tok_i, tok_pc>>

\* lines 122-142: a matching line starts a block; any other line that
\* starts with &inote_ reaches "continue" with i unchanged
LoadInote ==
    /\ LoadIterate
    /\ StartsWith(CurrentLine, <<"&", "i", "n", "o", "t", "e", "_">>)
    /\ IF InoteMatch(CurrentLine)
       THEN ReadBlock(BlockEnd(lines, line_i + 1))
       ELSE UNCHANGED <<line_i, metadata, difficulty_charts, diff_idx, load_pc,
                        parser_vars>>

\* lines 137-141: _parse_simai returned; the list is stored for a
\* difficulty index in 0..6
StoreChart ==
    /\ load_pc = "parse"
    /\ pc = "done"
    /\ load_pc' = "loop"
    /\ difficulty_charts' =
           IF 0 <= diff_idx /\ diff_idx < 7
           THEN [d \in DOMAIN difficulty_charts \cup {diff_idx} |->
                     IF d = diff_idx THEN timing_points ELSE difficulty_charts[d]]
           ELSE difficulty_charts
    /\ UNCHANGED <<lines, line_i, metadata, diff_idx, load_iter, sound_timings,
                   renderer_majson, majdata_majson, parser_vars>>

\* line 137: _parse_simai raised, and so does load_chart
ParseRaised ==
    /\ load_pc = "parse"
    /\ pc = "raised"
    /\ load_pc' = "raised"
    /\ UNCHANGED <<lines, line_i, metadata, difficulty_charts, diff_idx, load_iter,
                   sound_timings, renderer_majson, majdata_majson, parser_vars>>

\* the prefixes tested at lines 92-122
KnownPrefixes ==
    {<<"&", "t", "i", "t", "l", "e", "=">>, <<"&", "a", "r", "t", "i", "s", "t", "=">>,
     <<"&", "d", "e", "s", "=">>, <<"&", "f", "i", "r", "s", "t", "=">>,
     <<"&", "l", "v", "_">>, <<"&", "i", "n", "o", "t", "e", "_">>}

\* lines 144-148: any other line; one that starts with "&" is kept in
\* other_commands
LoadOther ==
    /\ LoadIterate
    /\ \A p \in KnownPrefixes : ~StartsWith(CurrentLine, p)
    /\ NextLine(IF StartsWith(CurrentLine, <<"&">>)
                THEN [metadata EXCEPT !.other_commands = @ \o CurrentLine \o <<"\n">>]
                ELSE metadata)

\* line 150: the loop condition fails and the chart is returned
LoadReturn ==
    /\ load_pc = "loop"
    /\ line_i >= Len(lines)
    /\ load_pc' = "done"
    /\ UNCHANGED <<lines, line_i, metadata, difficulty_charts, diff_idx, load_iter,
                   sound_timings, renderer_majson, majdata_majson, parser_vars>>

\* ------------------------------------------------------------------------
\* SoundTimingGenerator.generate (sound_timing.py)
\* ------------------------------------------------------------------------
\* dataclass SoundEffectTiming with its defaults
SoundEffectTiming(time) ==
    [time |-> time, note_group_index |-> -1,
     has_answer |-> FALSE, has_judge |-> FALSE, has_judge_break |-> FALSE,
     has_judge_ex |-> FALSE, has_break |-> FALSE, has_touch |-> FALSE,
     has_hanabi |-> FALSE, has_touch_hold |-> FALSE, has_slide |-> FALSE,
     has_touch_hold_end |-> FALSE, has_all_perfect |-> FALSE, has_clock |-> FALSE,
     has_break_slide_start |-> FALSE, has_break_slide |-> FALSE,
     has_judge_break_slide |-> FALSE, touch_hold_duration |-> Zero]

\* round(x) for the quotient q and remainder r of x = n / d: to the nearest
\* integer, a tie to the even one
RoundHalfEven(q, r, d) ==
    IF 2 * r < d THEN q
    ELSE IF 2 * r > d THEN q + 1
    ELSE IF q % 2 = 0 THEN q ELSE q + 1

\* round(time * 1000), the dictionary key in milliseconds (the key of the
\* code is this number / 1000)
RoundMs(time) ==
    RoundHalfEven((1000 * time.n) \div time.d, (1000 * time.n) % time.d, time.d)

\* key in timing_list
HasKey(timing_list, key) == \E k \in 1..Len(timing_list) : timing_list[k].key = key

\* if key not in timing_list: timing_list[key] = SoundEffectTiming(time=time)
Ensure(timing_list, key, time) ==
    IF HasKey(timing_list, key) THEN timing_list
    ELSE Append(timing_list, [key |-> key, ev |-> SoundEffectTiming(time)])

\* the event ev with the flags fs set
WithFlags(ev, fs) == [f \in DOMAIN ev |-> IF f \in fs THEN TRUE ELSE ev[f]]

\* timing_list[key].<flag> = True for the flags fs
SetFlags(timing_list, key, fs) ==
    [k \in 1..Len(timing_list) |->
        IF timing_list[k].key = key
        THEN [timing_list[k] EXCEPT !.ev = WithFlags(timing_list[k].ev, fs)]
        ELSE timing_list[k]]

\* get or create the event at round(time * 1000) and set the flags fs
Mark(timing_list, time, fs) ==
    SetFlags(Ensure(timing_list, RoundMs(time), time), RoundMs(time), fs)

\* _add_judge_sound (lines 215-229)
JudgeFlags(note) ==
    IF note.is_break THEN {"has_break", "has_judge_break"}
    ELSE IF note.is_ex THEN {"has_judge_ex"}
    ELSE {"has_judge"}

\* "if note.is_hanabi: sound_timing.has_hanabi = True"
HanabiFlag(note) == IF note.is_hanabi THEN {"has_hanabi"} ELSE {}

\* x > 0 for the float x
Positive(x) == RLess(Zero, x)

\* lines 130-133: the flags of a hold's release event
ReleaseFlags(note) ==
    IF ~note.is_break /\ ~note.is_ex THEN {"has_answer", "has_judge"}
    ELSE {"has_answer"}

\* lines 121-133: the release event of a hold
HoldRelease(timing_list, time, note) ==
    IF Positive(note.hold_time)
    THEN Mark(timing_list, RAdd(time, note.hold_time), ReleaseFlags(note))
    ELSE timing_list

\* lines 156-160: the end time of a break slide
SlideEndTime(time, note) ==
    IF Positive(note.slide_start_time) THEN RAdd(note.slide_start_time, note.slide_time)
    ELSE RAdd(RAdd(time, note.slide_wait_time), note.slide_time)

\* lines 154-168: the end event of a break slide
BreakSlideEnd(timing_list, time, note) ==
    IF Positive(note.slide_time)
    THEN Mark(timing_list, SlideEndTime(time, note),
              {"has_break_slide", "has_judge_break_slide"})
    ELSE timing_list

\* lines 141-175: the events after the waiting time of a slide
SlideSounds(timing_list, time, note) ==
    IF note.is_slide_break
    THEN BreakSlideEnd(Mark(timing_list, RAdd(time, note.slide_wait_time),
                            {"has_break_slide_start"}), time, note)
    ELSE Mark(timing_list, RAdd(time, note.slide_wait_time), {"has_slide"})

\* sound_timing.touch_hold_duration = note.hold_time (line 193)
SetDuration(timing_list, key, hold_time) ==
    [k \in 1..Len(timing_list) |->
        IF timing_list[k].key = key
        THEN [timing_list[k] EXCEPT !.ev.touch_hold_duration = hold_time]
        ELSE timing_list[k]]

\* lines 189-208: the events of a touch hold that lasts
TouchHoldSounds(timing_list, time, note) ==
    IF Positive(note.hold_time)
    THEN Mark(SetDuration(Mark(timing_list, time, {"has_touch_hold"}),
                          RoundMs(time), note.hold_time),
              RAdd(time, note.hold_time),
              {"has_answer", "has_touch_hold_end"} \cup HanabiFlag(note))
    ELSE timing_list

\* lines 105-208: the sounds of one note of the TimingPoint at time
NoteSounds(timing_list, time, note) ==
    IF note.note_type = "tap"
    THEN Mark(timing_list, time,
              {"has_answer"} \cup JudgeFlags(note) \cup HanabiFlag(note))
    ELSE IF note.note_type = "hold"
    THEN HoldRelease(Mark(timing_list, time,
                          {"has_answer"} \cup JudgeFlags(note) \cup HanabiFlag(note)),
                     time, note)
    ELSE IF note.note_type = "slide"
    THEN SlideSounds(Mark(timing_list, time, {"has_answer"} \cup JudgeFlags(note)),
                     time, note)
    ELSE IF note.note_type = "touch"
    THEN Mark(timing_list, time, {"has_answer", "has_touch"} \cup HanabiFlag(note))
    ELSE IF note.note_type = "touch_hold"
    THEN TouchHoldSounds(Mark(timing_list, time, {"has_answer", "has_touch"}),
                         time, note)
    ELSE timing_list

\* "for note in timing_point.notes", from note k on
RECURSIVE NotesSounds(_, _, _, _)
NotesSounds(timing_list, time, notes, k) ==
    IF k > Len(notes) THEN timing_list
    ELSE NotesSounds(NoteSounds(timing_list, time, notes[k]), time, notes, k + 1)

\* sound_timing.note_group_index = i (line 101)
SetIndex(timing_list, key, index) ==
    [k \in 1..Len(timing_list) |->
        IF timing_list[k].key = key
        THEN [timing_list[k] EXCEPT !.ev.note_group_index = index]
        ELSE timing_list[k]]

\* lines 91-208: the TimingPoint with index index (0-based)
PointSounds(timing_list, timing_point, index, start_time) ==
    IF RLess(timing_point.time, start_time) THEN timing_list
    ELSE NotesSounds(SetIndex(Ensure(timing_list, RoundMs(timing_point.time),
                                     timing_point.time),
                              RoundMs(timing_point.time), index),
                     timing_point.time, timing_point.notes, 1)

\* "for i, timing_point in enumerate(timing_points)", from index on
RECURSIVE PointsSounds(_, _, _, _)
PointsSounds(timing_list, points, index, start_time) ==
    IF index >= Len(points) THEN timing_list
    ELSE PointsSounds(PointSounds(timing_list, At(points, index), index, start_time),
                      points, index + 1, start_time)

\* the event ev put into the list sorted, after the events that are not later
RECURSIVE InsertByTime(_, _)
InsertByTime(sorted, ev) ==
    IF sorted = <<>> THEN <<ev>>
    ELSE IF RLess(ev.time, sorted[Len(sorted)].time)
    THEN Append(InsertByTime(SubSeq(sorted, 1, Len(sorted) - 1), ev),
                sorted[Len(sorted)])
    ELSE Append(sorted, ev)

\* sorted(timing_list.values(), key=lambda x: x.time) (line 211)
RECURSIVE SortedByTime(_, _)
SortedByTime(timing_list, n) ==
    IF n = 0 THEN <<>>
    ELSE InsertByTime(SortedByTime(timing_list, n - 1), timing_list[n].ev)

\* the events for the TimingPoints points
SoundsOf(timing_list) == SortedByTime(timing_list, Len(timing_list))

\* SoundTimingGenerator.generate(chart, start_time, diff_num=diff_num)
Generate(charts, start_time, diff_num) ==
    IF diff_num \notin DOMAIN charts THEN <<>>
    ELSE SoundsOf(PointsSounds(<<>>, charts[diff_num], 0, start_time))

\* the arguments of generate and generate_majson in the model
DiffNums == {0, 1, 2}
StartTimes == {Zero, Rat(1, 2)}

\* the chart returned by load_chart is given to generate
GenerateSound ==
    /\ load_pc = "done"
    /\ \E diff_num \in DiffNums, start_time \in StartTimes :
           sound_timings' = [exc |-> "none", called |-> TRUE, diff_num |-> diff_num,
                             start_time |-> start_time,
                             list |-> Generate(difficulty_charts, start_time, diff_num)]
    /\ UNCHANGED <<lines, line_i, metadata, difficulty_charts, diff_idx, load_pc,
                   load_iter, renderer_majson, majdata_majson, parser_vars>>

\* ------------------------------------------------------------------------
\* generate_majson of renderer.py and of majdata/json.py
\* ------------------------------------------------------------------------
\* Majson.get_difficulty_text (renderer.py lines 93-104, json.py 78-89)
DifficultyText(index) ==
    IF index = 0 THEN "EASY"
    ELSE IF index = 1 THEN "BASIC"
    ELSE IF index = 2 THEN "ADVANCED"
    ELSE IF index = 3 THEN "EXPERT"
    ELSE IF index = 4 THEN "MASTER"
    ELSE IF index = 5 THEN "Re:MASTER"
    ELSE IF index = 6 THEN "ORIGINAL"
    ELSE "DEFAULT"

\* note_type_map.get(note_type, SimaiNoteType.Tap)
SimaiNoteType(note_type) ==
    IF note_type = "hold" THEN "Hold"
    ELSE IF note_type = "slide" THEN "Slide"
    ELSE IF note_type = "touch" THEN "Touch"
    ELSE IF note_type = "touch_hold" THEN "TouchHold"
    ELSE "Tap"

\* c is kept by the five replace calls of _build_note_content
KeptInContent(c) == c \notin {"!", "?", "b", "$", "x"}

\* _build_note_content: the note's text without ! ? b $ x
BuildNoteContent(note_data) == SelectSeq(note_data.note_content, KeptInContent)

\* the SimaiNote built from note_data of the TimingPoint at time; the fields
\* the call does not pass keep the dataclass defaults
SimaiNote(time, note_data) ==
    [holdTime |-> note_data.hold_time,
     isBreak |-> note_data.is_break,
     isEx |-> note_data.is_ex,
     isFakeRotate |-> FALSE,
     isForceStar |-> FALSE,
     isHanabi |-> note_data.is_hanabi,
     isSlideBreak |-> note_data.is_slide_break,
     isSlideNoHead |-> note_data.is_no_slide_head,
     noteContent |-> BuildNoteContent(note_data),
     noteType |-> SimaiNoteType(note_data.note_type),
     slideStartTime |-> IF note_data.note_type = "slide"
                        THEN RAdd(time, note_data.slide_wait_time) ELSE Zero,
     slideTime |-> note_data.slide_time,
     startPosition |-> note_data.position,
     touchArea |-> IF note_data.touch_area = "" THEN " " ELSE note_data.touch_area]

\* "for note_data in timing_point.notes: ... noteList.append(simai_note)"
NoteList(timing_point) ==
    [k \in 1..Len(timing_point.notes) |-> SimaiNote(timing_point.time, timing_point.notes[k])]

\* the SimaiTimingPoint of timing_point with the raw text position x, y
SimaiTimingPoint(timing_point, x, y) ==
    [currentBpm |-> timing_point.bpm, havePlayed |-> FALSE, HSpeed |-> IntRat(1),
     noteList |-> NoteList(timing_point), notesContent |-> <<>>,
     rawTextPositionX |-> x, rawTextPositionY |-> y, time |-> timing_point.time]

\* renderer.py lines 177-223: the raw text position is passed on
RendererTimingList(points) ==
    [k \in 1..Len(points) |->
        SimaiTimingPoint(points[k], points[k].raw_text_position_x,
                         points[k].raw_text_position_y)]

\* json.py lines 162-201: the raw text position keeps its default
MajdataTimingList(points) ==
    [k \in 1..Len(points) |-> SimaiTimingPoint(points[k], 0, 0)]

\* the Majson of the chart's metadata with the timing list
Majson(diff_num, level, timingList) ==
    [artist |-> metadata.artist, designer |-> metadata.designer,
     difficulty |-> DifficultyText(diff_num), diffNum |-> diff_num, level |-> level,
     timingList |-> timingList, title |-> metadata.title]

\* a generate_majson call that returned majson / that raised e
MajsonResult(majson) == [exc |-> "none", called |-> TRUE, majson |-> majson]
MajsonRaises(e, diff_num) ==
    [exc |-> e, called |-> TRUE, majson |-> Majson(diff_num, <<"1">>, <<>>)]

\* renderer.py lines 202-205: "print(prev)" for a note without slide head
\* reads prev, which is assigned only after a note has been converted: it
\* is unbound at the first note of the first TimingPoint
PrevUnbound(points) ==
    /\ points # <<>>
    /\ points[1].notes # <<>>
    /\ points[1].notes[1].is_no_slide_head

\* renderer.generate_majson(chart, diff_num) (output of print not modelled)
RendererGenerate(charts, diff_num) ==
    IF diff_num \notin DOMAIN charts THEN MajsonResult(Majson(diff_num, <<"1">>, <<>>))
    ELSE IF PrevUnbound(charts[diff_num]) THEN MajsonRaises("UnboundLocalError", diff_num)
    ELSE MajsonResult(Majson(diff_num, <<"1">>, RendererTimingList(charts[diff_num])))

\* majdata.json.generate_majson(chart, diff_num)
MajdataGenerate(charts, diff_num) ==
    IF diff_num \notin DOMAIN charts THEN MajsonResult(Majson(diff_num, <<"1">>, <<>>))
    ELSE MajsonResult(Majson(diff_num, <<"1">>, MajdataTimingList(charts[diff_num])))

\* the chart returned by load_chart is given to renderer.generate_majson
RendererMajson ==
    /\ load_pc = "done"
    /\ \E diff_num \in DiffNums :
           renderer_majson' = RendererGenerate(difficulty_charts, diff_num)
    /\ UNCHANGED <<lines, line_i, metadata, difficulty_charts, diff_idx, load_pc,
                   load_iter, sound_timings, majdata_majson, parser_vars>>

\* the chart returned by load_chart is given to majdata.json.generate_majson
MajdataMajson ==
    /\ load_pc = "done"
    /\ \E diff_num \in DiffNums :
           majdata_majson' = MajdataGenerate(difficulty_charts, diff_num)
    /\ UNCHANGED <<lines, line_i, metadata, difficulty_charts, diff_idx, load_pc,
                   load_iter, sound_timings, renderer_majson, parser_vars>>

ChartNext ==
    \/ GenerateSound
    \/ RendererMajson
    \/ MajdataMajson
    \/ LoadTitle
    \/ LoadArtist
    \/ LoadDesigner
    \/ LoadFirst
    \/ LoadLevel
    \/ LoadInote
    \/ StoreChart
    \/ ParseRaised
    \/ LoadOther
    \/ LoadReturn
    \/ Newline
    \/ Comment
    \/ Whitespace
    \/ Bpm
    \/ Division
    \/ Comma
    \/ EndMarker
    \/ NoteGroup
    \/ Other
    \/ Return

ChartSpec == ChartInit /\ [][ChartNext]_vars

\* ------------------------------------------------------------------------
\* Properties
\* ------------------------------------------------------------------------
\* the notes of TimingPoint tp
NotesOf(tp) == {tp.notes[j] : j \in 1..Len(tp.notes)}

\* the TimingPoints so far
Points == {timing_points[k] : k \in 1..Len(timing_points)}

\* C1: _parse_simai returns a list for every text and offset and never
\* raises an exception.
C1_NeverRaises == pc # "raised"

\* C2: every iteration of the scanner loop that stays in the loop strictly
\* advances the cursor (so the call terminates on every finite text).
C2_CursorAdvances ==
    [][(tok_pc = "idle" /\ pc = "loop" /\ pc' = "loop") => i' > i]_vars

\* C3, start: before the first iteration the elapsed time is the offset.
C3_Start == iter = 0 => current_time = first_beat_time

\* C3, example: (120){4}1,2,3,4, with offset 0 gives four TimingPoints at
\* 0, 1/2, 1 and 3/2 seconds, each holding one tap, at positions 1 to 4.
C3_Example ==
    (pc = "done" /\ simai_text = Example1 /\ first_beat_time = Zero) =>
        /\ Len(timing_points) = 4
        /\ \A k \in 1..4 :
              /\ timing_points[k].time = Rat(k - 1, 2)
              /\ Len(timing_points[k].notes) = 1
              /\ timing_points[k].notes[1].note_type = "tap"
              /\ timing_points[k].notes[1].position = k

\* C3, advance: a "," that does not raise adds 240 / (bpm * division)
\* seconds, with the tempo and division in effect at that ",".
C3_Comma ==
    (/\ tok_pc = "idle" /\ pc = "loop" /\ pc' = "loop"
     /\ i < Len(simai_text) /\ At(simai_text, i) = ",") =>
        (current_time'.n * current_time.d - current_time.n * current_time'.d)
            * current_bpm.n * beats
          = 240 * current_bpm.d * current_time'.d * current_time.d

\* C3, stamping: a note group's TimingPoint carries the elapsed time in
\* effect when the group is read, and reading a group does not move time.
C3_Group ==
    Len(timing_points') > Len(timing_points) =>
        /\ timing_points'[Len(timing_points')].time = current_time
        /\ current_time' = current_time

\* C3: the elapsed time starts at first_beat_time, each "," adds
\* 60/bpm * 4/beats seconds at the tempo and division in effect, each
\* group's TimingPoint carries the elapsed time before the next ",", and
\* the example text yields taps 1..4 at 0, 0.5, 1.0 and 1.5 seconds.
C3_Timing == [](C3_Start /\ C3_Example) /\ [][C3_Comma /\ C3_Group]_vars

\* C3 witness: the example text has been parsed to its end.
C3_Witness ==
    /\ pc = "done" /\ simai_text = Example1 /\ first_beat_time = Zero
    /\ Len(timing_points) = 4
    /\ current_time = IntRat(2)

\* C4: the list never holds two TimingPoints created between the same pair
\* of "," tokens (the groups of one interval share one TimingPoint).
C4_OnePointPerInterval == groups_in_interval <= 1

\* the result is one TimingPoint at the offset with taps at 1 and 2
OnePointTwoNotes ==
    /\ Len(timing_points) = 1
    /\ timing_points[1].time = first_beat_time
    /\ Len(timing_points[1].notes) = 2
    /\ timing_points[1].notes[1].position = 1
    /\ timing_points[1].notes[2].position = 2

\* C5: the true-EACH text 1/2, and the pseudo-EACH text with a backtick
\* each parse to exactly one TimingPoint holding two notes, at positions 1
\* and 2 in that order, at the same time (the offset).
C5_EachGroups ==
    (pc = "done" /\ simai_text \in {Example2, Example3}) => OnePointTwoNotes

\* C5 witness: the true-EACH text has been parsed into a two-note point.
C5_Witness ==
    /\ pc = "done" /\ simai_text = Example2
    /\ Len(timing_points) = 1 /\ Len(timing_points[1].notes) = 2

\* C6: a hold or touch-hold note written with h and without a bracket has
\* hold_time = (60/bpm)*4/1280 at the tempo in effect, which is positive.
C6_DefaultHold ==
    \A tp \in Points : \A n \in NotesOf(tp) :
        (n.note_type \in {"hold", "touch_hold"} /\ ~Has(n.note_content, "[")) =>
            /\ n.hold_time.n * tp.bpm.n * 1280 = 240 * tp.bpm.d * n.hold_time.d
            /\ n.hold_time.n > 0

\* the notes written as note_content in a TimingPoint at tempo 120
NotesAt120(note_content) ==
    {n \in UNION {NotesOf(tp) : tp \in {q \in Points : q.bpm = IntRat(120)}} :
        n.note_content = note_content}

\* C7 as stated: 1-5[8:3] at tempo 120 is a slide of duration 1.5 seconds
\* and wait 0.5 seconds.
C7_Original ==
    \A n \in NotesAt120(Example6) :
        n.note_type = "slide" /\ n.slide_time = Rat(3, 2) /\ n.slide_wait_time = Rat(1, 2)

\* C7 amended: 1-5[8:3] at tempo 120 is a slide of duration 0.75 seconds
\* ((60/120) * 4/8 * 3) and wait 0.5 seconds.
C7_Amended ==
    \A n \in NotesAt120(Example6) :
        n.note_type = "slide" /\ n.slide_time = Rat(3, 4) /\ n.slide_wait_time = Rat(1, 2)

\* C7 witness: the token has been parsed at tempo 120 and the call returned.
C7_Witness == pc = "done" /\ NotesAt120(Example6) # {}

\* C8 as stated: 1-5[160#8:3] at current tempo 120 is a slide of duration
\* 1.125 seconds and wait 0.375 seconds.
C8_Original ==
    \A n \in NotesAt120(Example7) :
        n.note_type = "slide" /\ n.slide_time = Rat(9, 8) /\ n.slide_wait_time = Rat(3, 8)

\* C8 amended: 1-5[160#8:3] at current tempo 120 is a slide of duration
\* 0.5625 seconds ((60/160) * 4/8 * 3) and wait 0.375 seconds (60/160),
\* both at the bracket's tempo 160.
C8_Amended ==
    \A n \in NotesAt120(Example7) :
        n.note_type = "slide" /\ n.slide_time = Rat(9, 16) /\ n.slide_wait_time = Rat(3, 8)

\* C8 witness: the token has been parsed at tempo 120 and the call returned.
C8_Witness == pc = "done" /\ NotesAt120(Example7) # {}

\* C9: 1-5[3##1.5] is a slide of wait exactly 3.0 seconds and duration
\* exactly 1.5 seconds, whatever the tempo in effect.
C9_ExplicitWait ==
    \A tp \in Points : \A n \in NotesOf(tp) :
        n.note_content = Example8 =>
            n.note_type = "slide" /\ n.slide_wait_time = IntRat(3) /\ n.slide_time = Rat(3, 2)

\* C9 witness: the token has been parsed and the call returned.
C9_Witness ==
    pc = "done" /\ \E tp \in Points : \E n \in NotesOf(tp) : n.note_content = Example8

\* the two notes of the chained slide 1-4[4:3]*-6[8:5]: destinations 4 and
\* 6, only the second headless, both with wait 1/2, durations d0 and d1
ChainedPair(d0, d1) ==
    /\ Len(timing_points) = 1
    /\ Len(timing_points[1].notes) = 2
    /\ LET t0 == timing_points[1].notes[1]
           t1 == timing_points[1].notes[2]
       IN  /\ t0.note_type = "slide" /\ t1.note_type = "slide"
           /\ t0.position = 1 /\ t1.position = 1
           /\ t0.slide_end_position = 4 /\ ~t0.is_no_slide_head
           /\ t1.slide_end_position = 6 /\ t1.is_no_slide_head
           /\ t0.slide_wait_time = Rat(1, 2) /\ t1.slide_wait_time = Rat(1, 2)
           /\ t0.slide_time = d0 /\ t1.slide_time = d1

\* C10 as stated: 1-4[4:3]*-6[8:5] at tempo 120 has track 0 to 4, with its
\* head, of 3.0 seconds and track 1 to 6, headless, of 1.875 seconds, both
\* with wait 0.5 seconds.
C10_Original ==
    (pc = "done" /\ simai_text = Example9) => ChainedPair(IntRat(3), Rat(15, 8))

\* C10 amended: 1-4[4:3]*-6[8:5] at tempo 120 has track 0 to 4, with its
\* head, of 1.5 seconds ((60/120) * 4/4 * 3) and track 1 to 6, headless, of
\* 1.25 seconds ((60/120) * 4/8 * 5), both with wait 0.5 seconds.
C10_Amended ==
    (pc = "done" /\ simai_text = Example9) => ChainedPair(Rat(3, 2), Rat(5, 4))

\* C10 witness: the chained slide has been parsed into its two notes.
C10_Witness ==
    /\ pc = "done" /\ simai_text = Example9
    /\ Len(timing_points) = 1 /\ Len(timing_points[1].notes) = 2

\* the list a call on the timing example returns
Example1Result ==
    [k \in 1..4 |->
        TimingPoint(Rat(k - 1, 2), IntRat(120), <<NoteData("tap", k, <<DigitChar(k)>>)>>,
                    0, 2 * k)]

\* C11: _parse_simai is deterministic: two calls on the same (text,
\* first_beat_time) return equal lists, and the list a call returns does
\* not depend on any earlier call.
C11_Deterministic ==
    /\ \A a, b \in returned :
           (a.text = b.text /\ a.first = b.first) => a.result = b.result
    /\ \A a \in returned :
           (a.text = Example1 /\ a.first = Zero) => a.result = Example1Result

\* C11 witness: a second call has returned a non-empty list on a text that
\* is not the text of the first call.
C11_Witness ==
    /\ pc = "done" /\ calls = 2 /\ timing_points # <<>>
    /\ \E a \in returned : a.text # simai_text


\* C12: in the list _parse_simai builds and returns, TimingPoint times are
\* non-decreasing in list order, for every text, whatever tempo and
\* division directives the scanner accepts.
C12_TimesNonDecreasing ==
    \A k \in 1..(Len(timing_points) - 1) :
        RLeq(timing_points[k].time, timing_points[k + 1].time)


\* characters that occur in no decimal number / in no integer
NotInFloat == {"x", "h", ",", "/", "(", "{", "}", "[", "]", ":", "*", "|"}
NotInInt == NotInFloat \cup {"y", ".", ")"}

\* the content of the directive that opens at position k of text and
\* closes with delimiter close
DirectiveContent(text, k, close) ==
    Slice(text, k + 1, SkipUntilIn(text, k + 1, {close}))

\* the scanner of _parse_simai is about to read character c
Reads(c) ==
    tok_pc = "idle" /\ pc = "loop" /\ i < Len(simai_text) /\ At(simai_text, i) = c

\* C13, tempo: a (value) whose content is empty or holds a character of no
\* number leaves bpm (and everything but the cursor) unchanged, and the
\* scan resumes after the ")".
C13_Tempo ==
    (/\ Reads("(")
     /\ \/ DirectiveContent(simai_text, i, ")") = <<>>
        \/ HasAny(DirectiveContent(simai_text, i, ")"), NotInFloat)) =>
        /\ current_bpm' = current_bpm
        /\ beats' = beats /\ current_time' = current_time
        /\ timing_points' = timing_points
        /\ i' = i + Len(DirectiveContent(simai_text, i, ")")) + 2
        /\ pc' = "loop"

\* C13, division: a {value} whose content is empty or holds a character of
\* no integer leaves the division unchanged, and the scan resumes after
\* the "}".
C13_Division ==
    (/\ Reads("{")
     /\ \/ DirectiveContent(simai_text, i, "}") = <<>>
        \/ HasAny(DirectiveContent(simai_text, i, "}"), NotInInt)) =>
        /\ beats' = beats
        /\ current_bpm' = current_bpm /\ current_time' = current_time
        /\ timing_points' = timing_points
        /\ i' = i + Len(DirectiveContent(simai_text, i, "}")) + 2
        /\ pc' = "loop"

\* C13, later advances: in (60){8}(x){y}1,2 the "," after (x){y} adds 0.5
\* seconds, the step of tempo 60 and division 8, and in 1,||2 / (x){y}3, /
\* 4 it adds 0.5 seconds, the step of the initial tempo 120 and division 4.
C13_Example ==
    /\ (pc = "done" /\ simai_text = Example19) =>
            /\ Len(timing_points) = 2
            /\ \A k \in 1..2 :
                  /\ timing_points[k].time = RAdd(first_beat_time, Rat(k - 1, 2))
                  /\ timing_points[k].bpm = IntRat(60)
    /\ (pc = "done" /\ simai_text = Example11) =>
            /\ Len(timing_points) = 3
            /\ \A k \in 1..3 :
                  /\ timing_points[k].time = RAdd(first_beat_time, Rat(k - 1, 2))
                  /\ timing_points[k].bpm = IntRat(120)

\* the scanner of tokenize_simai is about to read character c
TokenizeReads(c) ==
    tok_pc = "loop" /\ tok_i < Len(simai_text) /\ At(simai_text, tok_i) = c

\* C13, tokenizer: a (value) or {value} whose content is empty or holds a
\* character of no number yields no token, and the scan resumes after the
\* closing delimiter.
C13_Tokenize ==
    /\ (/\ TokenizeReads("(")
        /\ \/ DirectiveContent(simai_text, tok_i, ")") = <<>>
           \/ HasAny(DirectiveContent(simai_text, tok_i, ")"), NotInFloat)) =>
           /\ tokens' = tokens
           /\ tok_i' = tok_i + Len(DirectiveContent(simai_text, tok_i, ")")) + 2
           /\ tok_pc' = "loop"
    /\ (/\ TokenizeReads("{")
        /\ \/ DirectiveContent(simai_text, tok_i, "}") = <<>>
           \/ HasAny(DirectiveContent(simai_text, tok_i, "}"), NotInInt)) =>
           /\ tokens' = tokens
           /\ tok_i' = tok_i + Len(DirectiveContent(simai_text, tok_i, "}")) + 2
           /\ tok_pc' = "loop"

\* C13, tokenizer example: (60){8}(x){y}1, / E / yields the tempo 60, the
\* division 8, the group 1 and one advance, and nothing for (x) and {y}.
C13_TokenizeExample ==
    (tok_pc = "done" /\ simai_text = Example20) =>
        tokens = <<Token("bpm", IntRat(60)), Token("division", 8),
                   Token("notes", <<"1">>), Token("advance", <<>>)>>

\* C13: a tempo directive whose content does not parse as a number leaves
\* bpm unchanged and a division directive whose content does not parse as
\* an integer leaves the division unchanged; scanning resumes after the
\* closing delimiter and later "," advances use the previous values.
C13_Fallback ==
    /\ [](C13_Example /\ C13_TokenizeExample)
    /\ [][C13_Tempo /\ C13_Division /\ C13_Tokenize]_vars

\* C13 witness: the text (60){8}(x){y}1,2 has been parsed to its end and
\* the tempo and division are still those set before (x){y}.
C13_Witness ==
    /\ pc = "done" /\ simai_text = Example19
    /\ current_bpm = IntRat(60) /\ beats = 8
    /\ Len(timing_points) = 2


\* C14: every note _parse_simai emits has its positions inside the 8-slot
\* ring: position in 1..8 for tap, hold and slide notes, sensor index in
\* 0..8 for touch and touch-hold notes, slide_end_position in 1..8 for
\* slides, in every segment of a group and for every chained track.
C14_PositionsInRing ==
    \A tp \in Points : \A n \in NotesOf(tp) :
        /\ n.note_type \in {"tap", "hold", "slide"} => n.position \in 1..8
        /\ n.note_type \in {"touch", "touch_hold"} => n.position \in 0..8
        /\ n.note_type = "slide" => n.slide_end_position \in 1..8


\* the only note of the only TimingPoint
OnlyNote == timing_points[1].notes[1]

\* C15: a [ with no matching ] is a bracket whose content is the rest of
\* the token, and the note is still emitted with its timing resolved from
\* that content: the hold 1h[4:1 lasts 0.5 seconds, the slide 1-5[8:3
\* lasts 0.75 seconds, and 1-4[4:3]*-6[8:5 keeps both tracks, of 1.5 and
\* 1.25 seconds.
C15_Unterminated ==
    /\ (pc = "done" /\ simai_text = Example24) =>
            /\ Len(timing_points) = 1 /\ Len(timing_points[1].notes) = 1
            /\ OnlyNote.note_type = "hold" /\ OnlyNote.hold_time = Rat(1, 2)
    /\ (pc = "done" /\ simai_text = Example25) =>
            /\ Len(timing_points) = 1 /\ Len(timing_points[1].notes) = 1
            /\ OnlyNote.note_type = "slide" /\ OnlyNote.slide_time = Rat(3, 4)
    /\ (pc = "done" /\ simai_text = Example23) => ChainedPair(Rat(3, 2), Rat(5, 4))


\* every bracket of token is empty (in particular: token has no bracket)
BracketsEmpty(token) ==
    \A k \in 1..Len(token) :
        token[k] = "[" => (k < Len(token) /\ token[k + 1] = "]")

\* token is one slide, all of whose tracks have an empty or no bracket
BracketlessSlide(token) ==
    /\ token # <<>> /\ Head(token) \in Digits \ {"0"}
    /\ HasAny(token, ShapeChars)
    /\ BracketsEmpty(token)
    /\ \A k \in 1..Len(token) :
          token[k] \in Digits \cup ShapeChars \cup {"*", "[", "]"}

\* the text of the note group at the cursor
GroupAtCursor == Slice(simai_text, i, SkipUntilIn(simai_text, i, GroupEnd))

\* C16, no error: reading a slide whose tracks have an empty or no bracket
\* does not raise.
C16_NoError ==
    ~(pc = "raised" /\ IsNoteStart(simai_text, i) /\ BracketlessSlide(GroupAtCursor))

\* C16, values: a slide note whose track has an empty or no bracket has
\* duration 0, and its wait is one beat (60/bpm) at the tempo in effect or,
\* on a chained track, the wait of the first track.
C16_Defaults ==
    \A tp \in Points : \A k \in 1..Len(tp.notes) :
        (tp.notes[k].note_type = "slide" /\ BracketlessSlide(tp.notes[k].note_content)) =>
            /\ tp.notes[k].slide_time = Zero
            /\ \/ tp.notes[k].slide_wait_time.n * tp.bpm.n
                      = 60 * tp.bpm.d * tp.notes[k].slide_wait_time.d
               \/ /\ k > 1 /\ tp.notes[k].is_no_slide_head
                  /\ tp.notes[k].slide_wait_time = tp.notes[1].slide_wait_time

\* C16, chained example: in 1-4[3##1]*-6 the track to 6 has duration 0 and
\* the wait 3 of the first track.
C16_Chained ==
    (pc = "done" /\ simai_text = Example26) =>
        /\ Len(timing_points) = 1 /\ Len(timing_points[1].notes) = 2
        /\ timing_points[1].notes[2].slide_time = Zero
        /\ timing_points[1].notes[2].slide_wait_time = IntRat(3)

\* C16: a slide track with no bracket, or with an empty bracket, resolves
\* without error to duration 0 and wait one beat (60/bpm) at the current
\* tempo; for a chained track the wait is the first track's wait.
C16_MissingBracket == C16_NoError /\ C16_Defaults /\ C16_Chained


\* the returned list is one TimingPoint whose notes are written first and
\* second, in that order
TwoSegments(first, second) ==
    /\ Len(timing_points) = 1
    /\ Len(timing_points[1].notes) = 2
    /\ timing_points[1].notes[1].note_content = first
    /\ timing_points[1].notes[2].note_content = second

\* C17: a true EACH group is split only at the / characters at bracket
\* depth 0 and each segment is parsed as one note token, in textual order:
\* 1-5[8:3]/2 (as 1/2) has two notes, and so have 1-5[3## 1]/2 and
\* 1-5[4:1/2]/2, whose space and / inside the bracket end no segment.
C17_EachSegments ==
    /\ (pc = "done" /\ simai_text = Example2) => TwoSegments(<<"1">>, <<"2">>)
    /\ (pc = "done" /\ simai_text = Example28) =>
            /\ TwoSegments(SubSeq(Example28, 1, 10), <<"2">>)
            /\ timing_points[1].notes[1].slide_wait_time = IntRat(3)
            /\ timing_points[1].notes[1].slide_time = IntRat(1)
    /\ (pc = "done" /\ simai_text = Example29) =>
            TwoSegments(SubSeq(Example29, 1, 10), <<"2">>)


\* token has a b somewhere after its first slide-shape character
BreakAfterShape(token) ==
    \E j, k \in 1..Len(token) : j < k /\ token[j] \in ShapeChars /\ token[k] = "b"

\* C18: a slide note's is_slide_break is set if and only if its token has
\* a b after the first slide-shape character; a b only before the shape
\* character, as in 1b-5[8:3], sets is_break and leaves is_slide_break
\* false.  (Stated on texts without chained tracks, where note_content is
\* the token.)
C18_BodyBreak ==
    /\ ~Has(simai_text, "*") =>
          \A tp \in Points : \A n \in NotesOf(tp) :
              n.note_type = "slide" =>
                  (n.is_slide_break <=> BreakAfterShape(n.note_content))
    /\ (pc = "done" /\ simai_text = Example30) =>
          /\ Len(timing_points) = 1
          /\ OnlyNote.is_break /\ ~OnlyNote.is_slide_break
    /\ (pc = "done" /\ simai_text = Example31) =>
          /\ Len(timing_points) = 1
          /\ ~OnlyNote.is_break /\ OnlyNote.is_slide_break


\* the characters of a chained slide token
ChainChars == Digits \cup ShapeChars \cup {"*", "[", "]", ":", "#", ".", "?", "!", "b"}

\* the text is one chained slide token
OneChainedToken ==
    /\ simai_text # <<>> /\ Head(simai_text) \in Digits \ {"0", "9"}
    /\ Has(simai_text, "*")
    /\ \A k \in 1..Len(simai_text) : simai_text[k] \in ChainChars

\* C19, all chains: the notes of a chained slide token are slides at the
\* token's origin with the wait of the first note; every note after the
\* first is headless, and the first is headless only if the token has a !
\* or a ?.
C19_Shared ==
    OneChainedToken =>
        \A tp \in Points : \A k \in 1..Len(tp.notes) :
            /\ tp.notes[k].note_type = "slide"
            /\ tp.notes[k].position = DigitVal(Head(simai_text))
            /\ tp.notes[k].slide_wait_time = tp.notes[1].slide_wait_time
            /\ k > 1 => tp.notes[k].is_no_slide_head
            /\ (k = 1 /\ tp.notes[k].is_no_slide_head) => HasAny(simai_text, {"!", "?"})

\* C19, own brackets: 1?-4[160#4:1]*-6[8:5]*-2 at tempo 120 gives three
\* notes with the wait 0.375 of the first track and the durations 0.375
\* ((60/160) * 4/4 * 1), 1.25 ((60/120) * 4/8 * 5) and 0 (no bracket); in
\* 1-4[4:3]*-6[8:5] the first note keeps its head.
C19_Example ==
    /\ (pc = "done" /\ simai_text = Example32) =>
          /\ Len(timing_points) = 1 /\ Len(timing_points[1].notes) = 3
          /\ \A k \in 1..3 :
                /\ timing_points[1].notes[k].slide_wait_time = Rat(3, 8)
                /\ timing_points[1].notes[k].is_no_slide_head
                /\ timing_points[1].notes[k].slide_time = <<Rat(3, 8), Rat(5, 4), Zero>>[k]
                /\ timing_points[1].notes[k].slide_end_position = <<4, 6, 2>>[k]
    /\ (pc = "done" /\ simai_text = Example9) =>
          /\ Len(timing_points) = 1
          /\ ~timing_points[1].notes[1].is_no_slide_head

\* C19: all notes of a chained slide token have the same position (the
\* origin) and the same slide_wait_time as the first track; the first
\* note's is_no_slide_head is set only by ! or ?, every later note has it
\* set, and each later note's slide_time is resolved from its own bracket.
C19_ChainedTracks == C19_Shared /\ C19_Example

\* C19 witness: the three-track token has been parsed into three notes.
C19_Witness ==
    /\ pc = "done" /\ simai_text = Example32
    /\ Len(timing_points) = 1 /\ Len(timing_points[1].notes) = 3


\* the bracket content of a token that ends with its only bracket
BracketContent(token) == Slice(token, Find(token, "[", 0) + 1, Len(token) - 1)

\* the D and C of a bracket content D:C
DivisorOf(content) == Slice(content, 0, Find(content, ":", 0))
CountOf(content) == Slice(content, Find(content, ":", 0) + 1, Len(content))

\* token is origin, shape, destination and a bracket D:C of two whole
\* numbers with D different from 0
PlainTimedSlide(token) ==
    /\ Len(token) >= 8
    /\ token[1] \in Digits /\ token[2] \in ShapeChars /\ token[3] \in Digits
    /\ token[4] = "[" /\ token[Len(token)] = "]"
    /\ Find(BracketContent(token), ":", 0) > 0
    /\ DivisorOf(BracketContent(token)) # <<>> /\ AllDigits(DivisorOf(BracketContent(token)))
    /\ CountOf(BracketContent(token)) # <<>> /\ AllDigits(CountOf(BracketContent(token)))
    /\ DigitsVal(DivisorOf(BracketContent(token))) # 0

\* C20: for a bracket content D:C with no #, numeric C and numeric D other
\* than 0, the slide has duration (60/bpm) * 4/D * C and wait 60/bpm, both
\* at the tempo in effect.
C20_BeatFraction ==
    \A tp \in Points : \A n \in NotesOf(tp) :
        (n.note_type = "slide" /\ ~n.is_no_slide_head /\ PlainTimedSlide(n.note_content)) =>
            /\ n.slide_time.n * tp.bpm.n * DigitsVal(DivisorOf(BracketContent(n.note_content)))
                 = 240 * DigitsVal(CountOf(BracketContent(n.note_content)))
                       * tp.bpm.d * n.slide_time.d
            /\ n.slide_wait_time.n * tp.bpm.n = 60 * tp.bpm.d * n.slide_wait_time.d

\* C20 witness: a call has returned a slide with a bracket D:C read at a
\* tempo other than the initial one.
C20_Witness ==
    /\ pc = "done"
    /\ \E tp \in Points : \E n \in NotesOf(tp) :
          /\ n.note_type = "slide" /\ PlainTimedSlide(n.note_content)
          /\ tp.bpm = IntRat(60) /\ n.slide_time = Rat(3, 2) /\ n.slide_wait_time = IntRat(1)


\* C21: for a bracket content T#rest without ## whose T is no number, the
\* slide is resolved without raising and its wait is one beat at the
\* current tempo (0.5 seconds at tempo 120), both when rest is a beat
\* fraction (1-5[x#8:3]) and when it is bare seconds (1-5[x#2]).
C21_TempoFallback ==
    simai_text \in {Example33, Example34} =>
        /\ pc # "raised"
        /\ pc = "done" =>
              /\ Len(timing_points) = 1 /\ Len(timing_points[1].notes) = 1
              /\ OnlyNote.note_type = "slide"
              /\ OnlyNote.slide_wait_time = Rat(1, 2)


\* C22: the [1280:1] default hold time is applied only to a hold without a
\* timing bracket: the hold of 1h[4:0], whose bracket is present and
\* resolves to 0.0, keeps the hold time 0.0.
C22_BracketKept ==
    (tok_pc = "idle" /\ simai_text = Example35 /\ pc = "done") =>
        /\ Len(timing_points) = 1 /\ Len(timing_points[1].notes) = 1
        /\ OnlyNote.note_type = "hold"
        /\ OnlyNote.hold_time = Zero


\* the modifier characters of a note token
ModifierChars == {"h", "b", "x", "f", "$", "!", "?", "@"}

\* the text without its closing comma
WithoutComma(text) ==
    IF text # <<>> /\ text[Len(text)] = "," THEN SubSeq(text, 1, Len(text) - 1)
    ELSE text

\* where the modifiers of the note token s start: after the head digit, or
\* after the area letter and the sensor digits of a touch note
ModifiersFrom(s) ==
    IF Head(s) \in TouchAreas THEN SkipWhileIn(s, 1, Digits) ELSE 1

\* the token s is a head, a run of modifier characters, and a rest that
\* holds no modifier character and starts with [ or a slide shape if any
ModifiersFirst(s) ==
    /\ s # <<>> /\ Head(s) \in (Digits \ {"0", "9"}) \cup TouchAreas
    /\ \A k \in 1..Len(s) :
           s[k] \in Digits \cup TouchAreas \cup ModifierChars \cup ShapeChars
                    \cup {"[", "]", ":"}
    /\ SkipWhileIn(s, ModifiersFrom(s), ModifierChars) > ModifiersFrom(s)
    /\ \A k \in 0..(Len(s) - 1) :
           k >= SkipWhileIn(s, ModifiersFrom(s), ModifierChars) =>
               At(s, k) \notin ModifierChars
    /\ SkipWhileIn(s, ModifiersFrom(s), ModifierChars) < Len(s) =>
           At(s, SkipWhileIn(s, ModifiersFrom(s), ModifierChars))
               \in ShapeChars \cup {"["}

\* the rearrangements of the positions from..(to - 1)
Rearrangements(from, to) ==
    {p \in [from..(to - 1) -> from..(to - 1)] :
         \A a, b \in from..(to - 1) : p[a] = p[b] => a = b}

\* the token s with its characters from..(to - 1) rearranged by p
Rearranged(s, from, to, p) ==
    [k \in 1..Len(s) |-> IF from <= k - 1 /\ k - 1 < to THEN At(s, p[k - 1]) ELSE s[k]]

\* the tokens made from s by rearranging its modifier characters
ModifierOrders(s) ==
    {Rearranged(s, ModifiersFrom(s), SkipWhileIn(s, ModifiersFrom(s), ModifierChars), p) :
         p \in Rearrangements(ModifiersFrom(s),
                              SkipWhileIn(s, ModifiersFrom(s), ModifierChars))}

\* two notes alike in everything but the text they were read from
SameButContent(a, b) == [a EXCEPT !.note_content = <<>>] = [b EXCEPT !.note_content = <<>>]

\* C23: for a note token whose modifier characters all come before any [
\* and any slide shape, every order of those modifier characters gives a
\* note of the same variant, position and flags as the note that was read.
C23_OrderIndependent ==
    (/\ tok_pc = "idle" /\ pc = "done"
     /\ ModifiersFirst(WithoutComma(simai_text))
     /\ Len(timing_points) = 1 /\ Len(timing_points[1].notes) = 1) =>
        \A t \in ModifierOrders(WithoutComma(simai_text)) :
            /\ ParseNoteFromString(t, current_bpm).exc = "none"
            /\ ~ParseNoteFromString(t, current_bpm).none
            /\ SameButContent(ParseNoteFromString(t, current_bpm).note, OnlyNote)

\* 1b$h! was read as a break star hold without slide head, and it has
\* other orders of its four modifiers
C23_Witness ==
    /\ tok_pc = "idle" /\ pc = "done" /\ simai_text = Example36
    /\ Len(timing_points) = 1 /\ Len(timing_points[1].notes) = 1
    /\ OnlyNote.note_type = "hold" /\ OnlyNote.is_break /\ OnlyNote.is_star_tap
    /\ OnlyNote.is_no_slide_head
    /\ ModifiersFirst(WithoutComma(simai_text))
    /\ Cardinality(ModifierOrders(WithoutComma(simai_text))) = 24


\* C24: a comment never affects the result, also when it follows a note
\* group on its line before any comma: 1||hb without its comment is the
\* text of the tap 1, so it is read as one plain tap at button 1, neither
\* a hold nor a break.
C24_CommentIgnored ==
    (tok_pc = "idle" /\ simai_text = Example40 /\ pc = "done") =>
        /\ Len(timing_points) = 1 /\ Len(timing_points[1].notes) = 1
        /\ timing_points[1].time = first_beat_time
        /\ OnlyNote.note_type = "tap" /\ OnlyNote.position = 1
        /\ ~OnlyNote.is_break


\* C25, frame: an iteration that reads anything but "(", "{" or ","
\* (a note group included) leaves bpm, division and elapsed time unchanged.
C25_Frame ==
    (/\ tok_pc = "idle" /\ pc = "loop" /\ i < Len(simai_text)
     /\ At(simai_text, i) \notin {"(", "{", ","}) =>
        /\ current_bpm' = current_bpm
        /\ beats' = beats
        /\ current_time' = current_time

\* C25, stamping: the TimingPoint of a note group carries the bpm in effect
\* before the group was read.
C25_Stamp ==
    (tok_pc = "idle" /\ Len(timing_points') > Len(timing_points)) =>
        timing_points'[Len(timing_points')].bpm = current_bpm

\* C25, example: in 1-5[160#8:3],2-6[8:3], the tempo 160 scopes the first
\* bracket only: both TimingPoints carry bpm 120, the "," advances by one
\* beat at 120 (0.5 seconds), and the later slide waits 0.5 seconds and
\* lasts 3/8 of a bar at 120 (0.75 seconds).
C25_Example ==
    (tok_pc = "idle" /\ pc = "done" /\ simai_text = Example41) =>
        /\ Len(timing_points) = 2
        /\ timing_points[1].bpm = IntRat(120) /\ timing_points[2].bpm = IntRat(120)
        /\ timing_points[1].notes[1].slide_wait_time = Rat(3, 8)
        /\ timing_points[2].time = RAdd(first_beat_time, Rat(1, 2))
        /\ timing_points[2].notes[1].slide_wait_time = Rat(1, 2)
        /\ timing_points[2].notes[1].slide_time = Rat(3, 4)
        /\ current_bpm = IntRat(120)

\* C25: reading a note group never changes bpm, division or elapsed time,
\* which only "(...)", "{...}" and "," change; a tempo written inside a
\* slide bracket scopes that bracket only and leaves the bpm of later
\* advances, later notes and the TimingPoint's bpm field unchanged.
C25_ContextKept == []C25_Example /\ [][C25_Frame /\ C25_Stamp]_vars

\* C25 witness: the text with the bracket tempo 160 has been parsed to its
\* end, its first slide waiting one beat at 160.
C25_Witness ==
    /\ tok_pc = "idle" /\ pc = "done" /\ simai_text = Example41
    /\ Len(timing_points) = 2
    /\ timing_points[1].notes[1].slide_wait_time = Rat(3, 8)
    /\ current_bpm = IntRat(120)


\* C27: a tokenizer step at the start of a note group does not raise and
\* yields one NoteGroup whose value runs from the group's first character
\* up to, and not including, the next "," or newline, whichever comes
\* first, or up to the end of the text when neither follows.
C27_GroupYielded ==
    [][(/\ tok_pc = "loop" /\ tok_i < Len(simai_text)
        /\ IsNoteStart(simai_text, tok_i) /\ ~IsEndMarker(simai_text, tok_i)) =>
           /\ tok_pc' # "raised"
           /\ tokens' = Append(tokens,
                  Token("notes", Slice(simai_text, tok_i,
                                       SkipUntilIn(simai_text, tok_i, {",", "\n"}))))]_vars


\* C26: load_chart parses every block with the file's &first= offset: when
\* it returns, the time of every TimingPoint of every stored difficulty is
\* at least that offset, and the tap of the file "&inote_1=1," "&first=0.25"
\* is at 0.25 seconds although its block comes before the offset line.
C26_OffsetApplied ==
    load_pc = "done" =>
        /\ \A d \in DOMAIN difficulty_charts :
               \A k \in 1..Len(difficulty_charts[d]) :
                   RLeq(metadata.first_beat_time, difficulty_charts[d][k].time)
        /\ lines = File2 => difficulty_charts[0][1].time = Rat(1, 4)


\* C29: every iteration of the line loop of load_chart that does not raise
\* advances the line index (so load_chart terminates on every file), also
\* at a line that starts with &inote_ but does not match &inote_<digit>=.
C29_LineAdvances ==
    [][(load_pc = "loop" /\ load_iter' = load_iter + 1 /\ load_pc' # "raised") =>
           line_i' > line_i]_vars


\* C28: for every hold note with hold_time > 0 of a TimingPoint at a time
\* t >= start_time, the list returned by generate holds an event at the
\* millisecond of t + hold_time with has_answer and has_judge set, whatever
\* the break and EX flags of the note.
C28_ReleaseJudged ==
    (sound_timings.called /\ sound_timings.diff_num \in DOMAIN difficulty_charts) =>
        \A p \in 1..Len(difficulty_charts[sound_timings.diff_num]) :
            \A k \in 1..Len(difficulty_charts[sound_timings.diff_num][p].notes) :
                (/\ difficulty_charts[sound_timings.diff_num][p].notes[k].note_type = "hold"
                 /\ Positive(difficulty_charts[sound_timings.diff_num][p].notes[k].hold_time)
                 /\ RLeq(sound_timings.start_time,
                         difficulty_charts[sound_timings.diff_num][p].time)) =>
                    \E e \in 1..Len(sound_timings.list) :
                        /\ RoundMs(sound_timings.list[e].time) =
                               RoundMs(RAdd(difficulty_charts[sound_timings.diff_num][p].time,
                                            difficulty_charts[sound_timings.diff_num][p]
                                                .notes[k].hold_time))
                        /\ sound_timings.list[e].has_answer
                        /\ sound_timings.list[e].has_judge


\* the note list of a SimaiTimingPoint holds one note per NoteData of the
\* TimingPoint, in order, with the same type, position and flags
SameNotes(entry, timing_point) ==
    /\ Len(entry.noteList) = Len(timing_point.notes)
    /\ \A k \in 1..Len(timing_point.notes) :
           /\ entry.noteList[k].noteType = SimaiNoteType(timing_point.notes[k].note_type)
           /\ entry.noteList[k].startPosition = timing_point.notes[k].position
           /\ entry.noteList[k].isBreak = timing_point.notes[k].is_break
           /\ entry.noteList[k].isEx = timing_point.notes[k].is_ex
           /\ entry.noteList[k].isHanabi = timing_point.notes[k].is_hanabi
           /\ entry.noteList[k].isSlideNoHead = timing_point.notes[k].is_no_slide_head
           /\ entry.noteList[k].isSlideBreak = timing_point.notes[k].is_slide_break

\* the result of a generate_majson call keeps the structure of the chart
Preserves(result) ==
    result.called =>
        /\ result.exc = "none"
        /\ IF result.majson.diffNum \in DOMAIN difficulty_charts
           THEN /\ Len(result.majson.timingList) =
                       Len(difficulty_charts[result.majson.diffNum])
                /\ \A p \in 1..Len(difficulty_charts[result.majson.diffNum]) :
                       SameNotes(result.majson.timingList[p],
                                 difficulty_charts[result.majson.diffNum][p])
           ELSE result.majson.timingList = <<>>

\* C30: both generate_majson implementations return, for a difficulty of
\* the chart, a timingList with one entry per TimingPoint in order, each
\* with one note per NoteData in order with the same type, position and
\* flags, also for a chart whose first note has is_no_slide_head set, and
\* an empty timingList for an absent difficulty; called for the same
\* difficulty they return the same note lists.
C30_MajsonsAgree ==
    /\ Preserves(renderer_majson)
    /\ Preserves(majdata_majson)
    /\ (/\ renderer_majson.called /\ majdata_majson.called
        /\ renderer_majson.majson.diffNum = majdata_majson.majson.diffNum) =>
           /\ Len(renderer_majson.majson.timingList) =
                  Len(majdata_majson.majson.timingList)
           /\ \A p \in 1..Len(renderer_majson.majson.timingList) :
                  renderer_majson.majson.timingList[p].noteList =
                      majdata_majson.majson.timingList[p].noteList

====
